---- MODULE Spec2Model ----
(***************************************************************************)
(* nepalify: Bikram Sambat (BS) calendar.  The ordinal engine and the      *)
(* AD <-> BS converter (dates/converter.py), the BSDate / BSDateTime value *)
(* types (dates/bs_date.py, dates/bs_datetime.py), the format engine       *)
(* (dates/format_codes.py) and the parse engine (dates/parser.py).         *)
(*                                                                         *)
(* A client is either idle or holds the outcome of its last call: `call`   *)
(* is the call made (operation and arguments), `ret` its outcome (a value, *)
(* or the exception raised).  The module-level globals of converter.py are *)
(* the remaining variables.  Where several threads call the converter at   *)
(* once, `threads` holds each thread's position inside its call and the    *)
(* locals of its frame.                                                    *)
(***************************************************************************)
EXTENDS Integers, Sequences, FiniteSets, TLC

VARIABLES
    BS_CALENDAR,               \* converter.py _BS_CALENDAR: year -> 12 month lengths ({} until loaded)
    CUMULATIVE_DAYS_BY_YEAR,   \* converter.py _CUMULATIVE_DAYS_BY_YEAR: days before each year
    CUMULATIVE_DAYS_BY_MONTH,  \* converter.py _CUMULATIVE_DAYS_BY_MONTH: year -> 13 prefix sums
    MAX_ORDINAL,               \* converter.py _MAX_ORDINAL
    ORDINAL_INITIALIZED,       \* converter.py _ORDINAL_INITIALIZED
    pc,                        \* "idle" | "returned": the client's position
    call,                      \* [op, args]: the call whose outcome is held
    ret,                       \* [kind, val]: kind is "ok" or the exception's name
    threads,                   \* thread -> [pc, op, args, year, cumulative_days, ret]
    caches                     \* function -> its lru_cache: <<key, value>> entries, oldest first

globals == <<BS_CALENDAR, CUMULATIVE_DAYS_BY_YEAR, CUMULATIVE_DAYS_BY_MONTH,
             MAX_ORDINAL, ORDINAL_INITIALIZED>>
tables == <<CUMULATIVE_DAYS_BY_YEAR, CUMULATIVE_DAYS_BY_MONTH,
            MAX_ORDINAL, ORDINAL_INITIALIZED>>
vars == <<BS_CALENDAR, CUMULATIVE_DAYS_BY_YEAR, CUMULATIVE_DAYS_BY_MONTH,
          MAX_ORDINAL, ORDINAL_INITIALIZED, pc, call, ret, threads, caches>>

----------------------------------------------------------------------------
(* Bounds.  The shipped table spans 1901..2199; the model keeps the first  *)
(* NumYears years of that span, so BS_MAX_YEAR scales with the bound.      *)

NumYears == 4

BS_MIN_YEAR == 1901
BS_MAX_YEAR == BS_MIN_YEAR + NumYears - 1

(* data/bs_calendar.json: one row of 12 month lengths (29..32) per year.   *)
MonthLengthRows ==
    << <<30, 32, 31, 32, 31, 30, 30, 30, 29, 30, 29, 31>>,
       <<31, 31, 32, 31, 31, 31, 30, 29, 30, 29, 30, 30>>,
       <<31, 31, 32, 32, 31, 30, 30, 29, 30, 29, 30, 30>>,
       <<31, 32, 31, 32, 31, 30, 30, 30, 29, 29, 30, 31>> >>

CalendarData ==
    [y \in BS_MIN_YEAR..BS_MAX_YEAR |->
        MonthLengthRows[((y - BS_MIN_YEAR) % Len(MonthLengthRows)) + 1]]

----------------------------------------------------------------------------
(* Outcomes of a call.                                                     *)

Ok(v) == [kind |-> "ok", val |-> v]
Raise(e) == [kind |-> e, val |-> <<>>]
NoCall == [op |-> "none", args |-> <<>>]
NoRet == [kind |-> "none", val |-> <<>>]

RECURSIVE SumSeq(_)
SumSeq(s) == IF s = <<>> THEN 0 ELSE Head(s) + SumSeq(Tail(s))

----------------------------------------------------------------------------
(* converter.py: the calendar table.                                       *)

\* _load_calendar_data: the table is read from the data file only while
\* the global is still empty.
load_calendar_data(cal) == IF DOMAIN cal = {} THEN CalendarData ELSE cal

Calendar == load_calendar_data(BS_CALENDAR)

\* Mutant: the day is held against the longest month, not the month's own
\* length.
is_valid_bs_date_any_month(year, month, day) ==
    IF year \notin DOMAIN Calendar THEN FALSE
    ELSE IF ~(1 <= month /\ month <= 12) THEN FALSE
    ELSE 1 <= day /\ day <= 32

is_valid_bs_date(year, month, day) ==
    IF year \notin DOMAIN Calendar THEN FALSE
    ELSE IF ~(1 <= month /\ month <= 12) THEN FALSE
    ELSE 1 <= day /\ day <= Calendar[year][month]

get_days_in_month(year, month) ==
    IF year \notin DOMAIN Calendar THEN Raise("ValueError")
    ELSE IF ~(1 <= month /\ month <= 12) THEN Raise("ValueError")
    ELSE Ok(Calendar[year][month])

----------------------------------------------------------------------------
(* converter.py: the ordinal lookup tables.                                *)

\* month_cumulative of one year: [0] followed by the 12 prefix sums.
RECURSIVE month_cumulative(_, _, _)
month_cumulative(row, month, acc) ==
    IF month > 12 THEN acc
    ELSE month_cumulative(row, month + 1, Append(acc, acc[Len(acc)] + row[month]))

\* Mutant: the running total misses each year's twelfth month.
RECURSIVE build_lookup_tables_short_year(_, _, _, _, _)
build_lookup_tables_short_year(calendar, year, cumulative_days, byYear, byMonth) ==
    IF year > BS_MAX_YEAR \/ year \notin DOMAIN calendar
    THEN [byYear |-> byYear, byMonth |-> byMonth, max |-> cumulative_days]
    ELSE build_lookup_tables_short_year(
            calendar, year + 1,
            cumulative_days + SumSeq(SubSeq(calendar[year], 1, 11)),
            Append(byYear, cumulative_days),
            (year :> month_cumulative(calendar[year], 1, <<0>>)) @@ byMonth)

\* The loop of _initialize_calendar_lookup_tables from `year` on.
RECURSIVE build_lookup_tables(_, _, _, _, _)
build_lookup_tables(calendar, year, cumulative_days, byYear, byMonth) ==
    IF year > BS_MAX_YEAR \/ year \notin DOMAIN calendar
    THEN [byYear |-> byYear, byMonth |-> byMonth, max |-> cumulative_days]
    ELSE build_lookup_tables(
            calendar, year + 1,
            cumulative_days + SumSeq(calendar[year]),
            Append(byYear, cumulative_days),
            (year :> month_cumulative(calendar[year], 1, <<0>>)) @@ byMonth)

\* Mutant: the flag is not looked at, and the loop runs at every call.
initialize_calendar_lookup_tables_again ==
    build_lookup_tables(Calendar, BS_MIN_YEAR, 0,
                        CUMULATIVE_DAYS_BY_YEAR, CUMULATIVE_DAYS_BY_MONTH)

\* The tables as _initialize_calendar_lookup_tables leaves them.
initialize_calendar_lookup_tables ==
    IF ORDINAL_INITIALIZED
    THEN [byYear |-> CUMULATIVE_DAYS_BY_YEAR, byMonth |-> CUMULATIVE_DAYS_BY_MONTH,
          max |-> MAX_ORDINAL]
    ELSE build_lookup_tables(Calendar, BS_MIN_YEAR, 0,
                             CUMULATIVE_DAYS_BY_YEAR, CUMULATIVE_DAYS_BY_MONTH)

\* bisect.bisect_right(a, x) on the 0-based list a, between lo and hi.
RECURSIVE bisect_loop(_, _, _, _)
bisect_loop(a, x, lo, hi) ==
    IF lo < hi
    THEN LET mid == (lo + hi) \div 2
         IN  IF x < a[mid + 1] THEN bisect_loop(a, x, lo, mid)
                               ELSE bisect_loop(a, x, mid + 1, hi)
    ELSE lo

\* Mutant: bisect_left, which stops before the entries equal to x.
RECURSIVE bisect_left_loop(_, _, _, _)
bisect_left_loop(a, x, lo, hi) ==
    IF lo < hi
    THEN LET mid == (lo + hi) \div 2
         IN  IF a[mid + 1] < x THEN bisect_left_loop(a, x, mid + 1, hi)
                               ELSE bisect_left_loop(a, x, lo, mid)
    ELSE lo

bisect_left(a, x) == bisect_left_loop(a, x, 0, Len(a))

bisect_right(a, x) == bisect_loop(a, x, 0, Len(a))

bs_date_to_ordinal(year, month, day) ==
    LET lookup(t) ==
            IF ~(BS_MIN_YEAR <= year /\ year <= BS_MAX_YEAR) THEN Raise("ValueError")
            ELSE IF ~(1 <= month /\ month <= 12) THEN Raise("ValueError")
            ELSE IF year \notin DOMAIN t.byMonth THEN Raise("ValueError")
            ELSE LET year_index == year - BS_MIN_YEAR
                 IN  Ok(t.byYear[year_index + 1] + t.byMonth[year][month] + day)
    IN  lookup(initialize_calendar_lookup_tables)

ordinal_to_bs_date(ordinal) ==
    LET in_month(year, remaining_days, month_lookup, pos) ==
            LET month == IF pos < 1 THEN 1 ELSE IF pos > 12 THEN 12 ELSE pos
                day == remaining_days - month_lookup[month]
            IN  Ok(<<year, month, day>>)
        in_year(t, year_index) ==
            LET year == BS_MIN_YEAR + year_index
                remaining_days == ordinal - t.byYear[year_index + 1]
                month_lookup == t.byMonth[year]
            IN  IF year \notin DOMAIN t.byMonth THEN Raise("KeyError")
                ELSE in_month(year, remaining_days, month_lookup,
                              bisect_right(month_lookup, remaining_days - 1))
        lookup(t) ==
            IF ordinal < 1 THEN Raise("ValueError")
            ELSE IF ordinal > t.max THEN Raise("ValueError")
            ELSE LET found == bisect_right(t.byYear, ordinal - 1) - 1
                 IN  in_year(t, IF found < 0 THEN 0 ELSE found)
    IN  lookup(initialize_calendar_lookup_tables)

get_max_ordinal == Ok(initialize_calendar_lookup_tables.max)

----------------------------------------------------------------------------
(* datetime.date as converter.py uses it: the constructor's validation,    *)
(* toordinal() and fromordinal() of the proleptic Gregorian calendar.      *)

DAYS_IN_MONTH == <<31, 28, 31, 30, 31, 30, 31, 31, 30, 31, 30, 31>>
DAYS_BEFORE_MONTH == <<0, 31, 59, 90, 120, 151, 181, 212, 243, 273, 304, 334>>

is_leap(year) == year % 4 = 0 /\ (year % 100 # 0 \/ year % 400 = 0)

days_before_year(year) ==
    LET y == year - 1
    IN  y * 365 + (y \div 4) - (y \div 100) + (y \div 400)

days_in_month(year, month) ==
    IF month = 2 /\ is_leap(year) THEN 29 ELSE DAYS_IN_MONTH[month]

days_before_month(year, month) ==
    DAYS_BEFORE_MONTH[month] + (IF month > 2 /\ is_leap(year) THEN 1 ELSE 0)

\* date(year, month, day) succeeds
date_is_valid(year, month, day) ==
    /\ 1 <= year /\ year <= 9999
    /\ 1 <= month /\ month <= 12
    /\ 1 <= day /\ day <= days_in_month(year, month)

\* date(year, month, day).toordinal()
date_toordinal(year, month, day) ==
    days_before_year(year) + days_before_month(year, month) + day

\* date.fromordinal(n) as (year, month, day)
date_fromordinal(ordinal) ==
    LET n0 == ordinal - 1
        n400 == n0 \div 146097
        r400 == n0 % 146097
        n100 == r400 \div 36524
        r100 == r400 % 36524
        n4 == r100 \div 1461
        r4 == r100 % 1461
        n1 == r4 \div 365
        n == r4 % 365
        year == n400 * 400 + 1 + n100 * 100 + n4 * 4 + n1
    IN  IF n1 = 4 \/ n100 = 4 THEN <<year - 1, 12, 31>>
        ELSE LET leapyear == n1 = 3 /\ (n4 # 24 \/ n100 = 3)
                 guess == (n + 50) \div 32
                 before(m) == DAYS_BEFORE_MONTH[m] + (IF m > 2 /\ leapyear THEN 1 ELSE 0)
                 length(m) == DAYS_IN_MONTH[m] + (IF m = 2 /\ leapyear THEN 1 ELSE 0)
                 month == IF before(guess) > n THEN guess - 1 ELSE guess
                 preceding == IF before(guess) > n THEN before(guess) - length(guess - 1)
                                                   ELSE before(guess)
             IN  <<year, month, n - preceding + 1>>

----------------------------------------------------------------------------
(* converter.py: AD <-> BS.                                                *)

\* _REF_AD = date(1844, 4, 11), the AD day of BS 1901-01-01
REF_AD == <<1844, 4, 11>>

ref_ad_ordinal == date_toordinal(REF_AD[1], REF_AD[2], REF_AD[3])

\* Mutant: the AD day count is used as the BS ordinal, without the + 1.
ad_to_bs_no_offset(year, month, day) ==
    IF ~date_is_valid(year, month, day) THEN Raise("ValueError")
    ELSE LET bs_ordinal == date_toordinal(year, month, day) - ref_ad_ordinal
             reraise(r) == IF r.kind = "ValueError" THEN Raise("ValueError") ELSE r
         IN  IF bs_ordinal < 1 THEN Raise("ValueError")
             ELSE reraise(ordinal_to_bs_date(bs_ordinal))

ad_to_bs(year, month, day) ==
    IF ~date_is_valid(year, month, day) THEN Raise("ValueError")
    ELSE LET target_ad_ordinal == date_toordinal(year, month, day)
             bs_ordinal == target_ad_ordinal - ref_ad_ordinal + 1
             reraise(r) == IF r.kind = "ValueError" THEN Raise("ValueError") ELSE r
         IN  IF bs_ordinal < 1 THEN Raise("ValueError")
             ELSE reraise(ordinal_to_bs_date(bs_ordinal))

\* Mutant: ordinal 1 lands on the day after the reference day.
bs_to_ad_off_by_one(year, month, day) ==
    LET convert(o) ==
            IF o.kind # "ok" THEN o
            ELSE Ok(date_fromordinal(ref_ad_ordinal + o.val))
    IN  convert(bs_date_to_ordinal(year, month, day))

bs_to_ad(year, month, day) ==
    LET convert(o) ==
            IF o.kind # "ok" THEN o
            ELSE LET ad_ordinal == ref_ad_ordinal + o.val - 1
                 IN  Ok(date_fromordinal(ad_ordinal))
    IN  convert(bs_date_to_ordinal(year, month, day))

----------------------------------------------------------------------------
(* Effects of a call on the globals of converter.py.                       *)

\* _load_calendar_data() ran and nothing else touched the globals
LoadsCalendar ==
    /\ BS_CALENDAR' = Calendar
    /\ UNCHANGED tables

\* _initialize_calendar_lookup_tables() ran
InitializesTables ==
    LET assign(t) ==
            /\ BS_CALENDAR' = IF ORDINAL_INITIALIZED THEN BS_CALENDAR ELSE Calendar
            /\ CUMULATIVE_DAYS_BY_YEAR' = t.byYear
            /\ CUMULATIVE_DAYS_BY_MONTH' = t.byMonth
            /\ MAX_ORDINAL' = t.max
            /\ ORDINAL_INITIALIZED' = TRUE
    IN  assign(initialize_calendar_lookup_tables)

Returns(op, args, outcome) ==
    /\ pc' = "returned"
    /\ call' = [op |-> op, args |-> args]
    /\ ret' = outcome
    /\ UNCHANGED <<threads, caches>>

----------------------------------------------------------------------------
(* The inputs a client draws.                                              *)

BsYearInputs == (BS_MIN_YEAR - 1)..(BS_MAX_YEAR + 1)
MonthInputs == 0..13
DayInputs == 0..33
TotalDays == SumSeq([i \in 1..NumYears |-> SumSeq(CalendarData[BS_MIN_YEAR + i - 1])])
OrdinalInputs == (-1)..(TotalDays + 2)
AdYearInputs == (REF_AD[1] - 1)..(REF_AD[1] + NumYears + 1)
AdDayInputs == 0..32

----------------------------------------------------------------------------
(* The converter's functions, each called by an idle client.               *)

Init ==
    /\ BS_CALENDAR = <<>>
    /\ CUMULATIVE_DAYS_BY_YEAR = <<>>
    /\ CUMULATIVE_DAYS_BY_MONTH = <<>>
    /\ MAX_ORDINAL = 0
    /\ ORDINAL_INITIALIZED = FALSE
    /\ pc = "idle"
    /\ call = NoCall
    /\ ret = NoRet
    /\ threads = <<>>
    /\ caches = <<>>

CallIsValidBsDate ==
    /\ pc = "idle"
    /\ \E y \in BsYearInputs, m \in MonthInputs, d \in DayInputs:
          Returns("is_valid_bs_date", <<y, m, d>>, Ok(is_valid_bs_date(y, m, d)))
    /\ LoadsCalendar

CallGetDaysInMonth ==
    /\ pc = "idle"
    /\ \E y \in BsYearInputs, m \in MonthInputs:
          Returns("get_days_in_month", <<y, m>>, get_days_in_month(y, m))
    /\ LoadsCalendar

CallBsDateToOrdinal ==
    /\ pc = "idle"
    /\ \E y \in BsYearInputs, m \in MonthInputs, d \in DayInputs:
          Returns("bs_date_to_ordinal", <<y, m, d>>, bs_date_to_ordinal(y, m, d))
    /\ InitializesTables

CallOrdinalToBsDate ==
    /\ pc = "idle"
    /\ \E o \in OrdinalInputs:
          Returns("ordinal_to_bs_date", <<o>>, ordinal_to_bs_date(o))
    /\ InitializesTables

CallGetMaxOrdinal ==
    /\ pc = "idle"
    /\ Returns("get_max_ordinal", <<>>, get_max_ordinal)
    /\ InitializesTables

\* ad_to_bs reaches the ordinal engine only past its own two checks
CallAdToBs ==
    /\ pc = "idle"
    /\ \E y \in AdYearInputs, m \in MonthInputs, d \in AdDayInputs:
          /\ Returns("ad_to_bs", <<y, m, d>>, ad_to_bs(y, m, d))
          /\ IF date_is_valid(y, m, d) /\ date_toordinal(y, m, d) >= ref_ad_ordinal
             THEN InitializesTables
             ELSE UNCHANGED globals

CallBsToAd ==
    /\ pc = "idle"
    /\ \E y \in BsYearInputs, m \in MonthInputs, d \in DayInputs:
          Returns("bs_to_ad", <<y, m, d>>, bs_to_ad(y, m, d))
    /\ InitializesTables

\* the client drops the outcome it holds
Return ==
    /\ pc = "returned"
    /\ pc' = "idle"
    /\ call' = NoCall
    /\ ret' = NoRet
    /\ UNCHANGED <<globals, threads, caches>>

Next ==
    \/ CallIsValidBsDate
    \/ CallGetDaysInMonth
    \/ CallBsDateToOrdinal
    \/ CallOrdinalToBsDate
    \/ CallGetMaxOrdinal
    \/ CallAdToBs
    \/ CallBsToAd
    \/ Return

Spec == Init /\ [][Next]_vars

----------------------------------------------------------------------------
(* Python values that cross the API: int, datetime.timedelta,              *)
(* datetime.date.                                                          *)

\* an optional argument or result: None, or Some(v) for the value v
None == <<>>
Some(v) == <<v>>

PyInt(n) == [type |-> "int", v |-> n]
PyDate(t) == [type |-> "date", year |-> t[1], month |-> t[2], day |-> t[3]]

\* timedelta(days=..., seconds=..., microseconds=...), normalised as the
\* constructor does: 0 <= seconds < 86400, 0 <= microseconds < 1000000
timedelta(days, seconds, microseconds) ==
    LET us == microseconds % 1000000
        s1 == seconds + ((microseconds - us) \div 1000000)
        s == s1 % 86400
        d == days + ((s1 - s) \div 86400)
    IN  [type |-> "timedelta", days |-> d, seconds |-> s, microseconds |-> us]

\* -delta
timedelta_neg(delta) == timedelta(-delta.days, -delta.seconds, -delta.microseconds)

\* date1 - date2
date_sub(a, b) ==
    timedelta(date_toordinal(a.year, a.month, a.day)
                - date_toordinal(b.year, b.month, b.day), 0, 0)

----------------------------------------------------------------------------
(* bs_date.py: BSDate.                                                     *)

\* BSDate.__init__
BSDate(year, month, day) ==
    IF ~is_valid_bs_date(year, month, day) THEN Raise("ValueError")
    ELSE Ok([type |-> "BSDate", year |-> year, month |-> month, day |-> day])

BSDate_from_ad(ad_date) ==
    LET cls(r) == IF r.kind # "ok" THEN r ELSE BSDate(r.val[1], r.val[2], r.val[3])
    IN  cls(ad_to_bs(ad_date.year, ad_date.month, ad_date.day))

BSDate_to_ad(self) ==
    LET date(r) ==
            IF r.kind # "ok" THEN r
            ELSE IF ~date_is_valid(r.val[1], r.val[2], r.val[3]) THEN Raise("ValueError")
            ELSE Ok(PyDate(r.val))
    IN  date(bs_to_ad(self.year, self.month, self.day))

BSDate_toordinal(self) == bs_date_to_ordinal(self.year, self.month, self.day)

BSDate_fromordinal(ordinal) ==
    LET cls(r) == IF r.kind # "ok" THEN r ELSE BSDate(r.val[1], r.val[2], r.val[3])
    IN  cls(ordinal_to_bs_date(ordinal))

\* replace(year=None, month=None, day=None): None keeps the field
BSDate_replace(self, year, month, day) ==
    BSDate(IF year # None THEN year[1] ELSE self.year,
           IF month # None THEN month[1] ELSE self.month,
           IF day # None THEN day[1] ELSE self.day)

\* Mutant: the day count is added one short.
BSDate_add_short(self, days) ==
    IF days.type \notin {"timedelta", "int"} THEN Ok("NotImplemented")
    ELSE LET n == IF days.type = "timedelta" THEN days.days ELSE days.v
             shifted(o) ==
                 IF o.kind # "ok" THEN o
                 ELSE BSDate_fromordinal(o.val + n - (IF n > 1 THEN 1 ELSE 0))
         IN  shifted(BSDate_toordinal(self))

\* BSDate.__add__
BSDate_add(self, days) ==
    IF days.type \notin {"timedelta", "int"} THEN Ok("NotImplemented")
    ELSE LET n == IF days.type = "timedelta" THEN days.days ELSE days.v
             shifted(o) == IF o.kind # "ok" THEN o ELSE BSDate_fromordinal(o.val + n)
         IN  shifted(BSDate_toordinal(self))

\* BSDate.__sub__
BSDate_sub(self, other) ==
    IF other.type = "BSDate"
    THEN LET difference(a, b) ==
                 IF a.kind # "ok" THEN a
                 ELSE IF b.kind # "ok" THEN b
                 ELSE Ok(timedelta(a.val - b.val, 0, 0))
         IN  difference(BSDate_toordinal(self), BSDate_toordinal(other))
    ELSE IF other.type = "timedelta" THEN BSDate_add(self, PyInt(-other.days))
    ELSE IF other.type = "int" THEN BSDate_add(self, PyInt(-other.v))
    ELSE Ok("NotImplemented")


\* a <op> b of two ints
int_compare(op, a, b) ==
    CASE op = "<" -> a < b
      [] op = "<=" -> a <= b
      [] op = ">" -> a > b
      [] op = ">=" -> a >= b

\* the comparisons of BSDate by toordinal(): op is <, <=, > or >= of the two
\* ordinals
BSDate_richcmp(self, other, op) ==
    IF other.type # "BSDate" THEN Ok("NotImplemented")
    ELSE LET compared(a, b) ==
                 IF a.kind # "ok" THEN a
                 ELSE IF b.kind # "ok" THEN b
                 ELSE Ok(int_compare(op, a.val, b.val))
         IN  compared(BSDate_toordinal(self), BSDate_toordinal(other))

\* BSDate.__eq__
BSDate_eq(self, other) ==
    IF other.type = "BSDate"
    THEN Ok(self.year = other.year /\ self.month = other.month /\ self.day = other.day)
    ELSE Ok("NotImplemented")

\* BSDate.__ne__: the result of __eq__ is NotImplemented when other is not a
\* BSDate
BSDate_ne(self, other) ==
    LET negated(result) == IF other.type # "BSDate" THEN result ELSE Ok(~result.val)
    IN  negated(BSDate_eq(self, other))

\* Mutant: the ordinals are compared with <=.
BSDate_lt_or_equal(self, other) == BSDate_richcmp(self, other, "<=")
\* BSDate.__lt__
BSDate_lt(self, other) == BSDate_richcmp(self, other, "<")
\* BSDate.__le__
BSDate_le(self, other) == BSDate_richcmp(self, other, "<=")
\* BSDate.__gt__
BSDate_gt(self, other) == BSDate_richcmp(self, other, ">")
\* BSDate.__ge__
BSDate_ge(self, other) == BSDate_richcmp(self, other, ">=")

\* hash() of a tuple of ints, a function of the items in their order; the
\* mixing of CPython is stood in for by a polynomial in a space of HashSpace
\* values, in which different tuples may collide
HashSpace == 1021
RECURSIVE tuple_hash(_)
tuple_hash(items) ==
    IF items = <<>> THEN 7
    ELSE (tuple_hash(SubSeq(items, 1, Len(items) - 1)) * 31 + items[Len(items)]) % HashSpace

\* BSDate.__hash__
BSDate_hash(self) == tuple_hash(<<self.year, self.month, self.day>>)

----------------------------------------------------------------------------
(* datetime.time, datetime.datetime and the fixed-offset tzinfo of         *)
(* dates/timezone.py.  A tzinfo is "None", "NPT" (NepaliTimeZone) or "UTC"  *)
(* (datetime.timezone.utc).                                                *)

PyTime(hour, minute, second, microsecond, tzinfo) ==
    [type |-> "time", hour |-> hour, minute |-> minute, second |-> second,
     microsecond |-> microsecond, tzinfo |-> tzinfo]

PyDateTime(t, hour, minute, second, microsecond, tzinfo) ==
    [type |-> "datetime", year |-> t[1], month |-> t[2], day |-> t[3],
     hour |-> hour, minute |-> minute, second |-> second,
     microsecond |-> microsecond, tzinfo |-> tzinfo]

\* date.max.toordinal()
MAXORDINAL == 3652059

\* datetime + timedelta
datetime_add(dt, delta) ==
    LET sum == timedelta(date_toordinal(dt.year, dt.month, dt.day) + delta.days,
                         dt.hour * 3600 + dt.minute * 60 + dt.second + delta.seconds,
                         dt.microsecond + delta.microseconds)
        hour == sum.seconds \div 3600
        rem == sum.seconds % 3600
    IN  IF 0 < sum.days /\ sum.days <= MAXORDINAL
        THEN Ok(PyDateTime(date_fromordinal(sum.days), hour, rem \div 60, rem % 60,
                           sum.microseconds, dt.tzinfo))
        ELSE Raise("OverflowError")

\* NPT_OFFSET = timedelta(hours=5, minutes=45), in seconds
NPT_OFFSET == 20700

\* NepaliTimeZone.utcoffset and that of timezone.utc, in seconds
utcoffset(tzinfo) ==
    IF tzinfo = "NPT" THEN Some(NPT_OFFSET) ELSE IF tzinfo = "UTC" THEN Some(0) ELSE None

\* tzinfo1 == tzinfo2: NepaliTimeZone.__eq__ holds of every NepaliTimeZone
\* and of a tzinfo of the same offset
tzinfo_eq(a, b) ==
    IF a = "NPT" \/ b = "NPT" THEN utcoffset(a) = utcoffset(b) ELSE a = b

\* datetime1 - datetime2
datetime_sub(a, b) ==
    LET base == timedelta(date_toordinal(a.year, a.month, a.day)
                            - date_toordinal(b.year, b.month, b.day),
                          (a.hour * 3600 + a.minute * 60 + a.second)
                            - (b.hour * 3600 + b.minute * 60 + b.second),
                          a.microsecond - b.microsecond)
    IN  IF a.tzinfo = b.tzinfo THEN Ok(base)
        ELSE IF a.tzinfo = "None" \/ b.tzinfo = "None" THEN Raise("TypeError")
        ELSE Ok(timedelta(base.days, base.seconds + utcoffset(b.tzinfo)[1] - utcoffset(a.tzinfo)[1],
                          base.microseconds))


\* the comparison of two datetimes: -1, 0 or 1; with different tzinfo it is
\* the sign of datetime1 - datetime2
datetime_cmp(a, b) ==
    LET sign(diff) ==
            IF diff.kind # "ok" THEN diff
            ELSE IF diff.val.days < 0 THEN Ok(-1)
            ELSE IF diff.val.days = 0 /\ diff.val.seconds = 0 /\ diff.val.microseconds = 0
            THEN Ok(0)
            ELSE Ok(1)
    IN  sign(datetime_sub(a, b))

----------------------------------------------------------------------------
(* bs_datetime.py: BSDateTime.                                             *)

\* Mutant: the date is not validated.
BSDateTime_any_date(year, month, day, hour, minute, second, microsecond, tzinfo) ==
    IF ~(0 <= hour /\ hour <= 23) THEN Raise("ValueError")
    ELSE IF ~(0 <= minute /\ minute <= 59) THEN Raise("ValueError")
    ELSE IF ~(0 <= second /\ second <= 59) THEN Raise("ValueError")
    ELSE IF ~(0 <= microsecond /\ microsecond <= 999999) THEN Raise("ValueError")
    ELSE Ok([type |-> "BSDateTime", year |-> year, month |-> month, day |-> day,
             hour |-> hour, minute |-> minute, second |-> second,
             microsecond |-> microsecond, tzinfo |-> tzinfo])

\* BSDateTime.__init__
BSDateTime(year, month, day, hour, minute, second, microsecond, tzinfo) ==
    IF ~is_valid_bs_date(year, month, day) THEN Raise("ValueError")
    ELSE IF ~(0 <= hour /\ hour <= 23) THEN Raise("ValueError")
    ELSE IF ~(0 <= minute /\ minute <= 59) THEN Raise("ValueError")
    ELSE IF ~(0 <= second /\ second <= 59) THEN Raise("ValueError")
    ELSE IF ~(0 <= microsecond /\ microsecond <= 999999) THEN Raise("ValueError")
    ELSE Ok([type |-> "BSDateTime", year |-> year, month |-> month, day |-> day,
             hour |-> hour, minute |-> minute, second |-> second,
             microsecond |-> microsecond, tzinfo |-> tzinfo])

BSDateTime_from_ad(dt) ==
    IF dt.type = "datetime"
    THEN LET cls(r) ==
                 IF r.kind # "ok" THEN r
                 ELSE BSDateTime(r.val[1], r.val[2], r.val[3],
                                 dt.hour, dt.minute, dt.second, dt.microsecond, dt.tzinfo)
         IN  cls(ad_to_bs(dt.year, dt.month, dt.day))
    ELSE IF dt.type = "date"
    THEN LET cls(r) ==
                 IF r.kind # "ok" THEN r
                 ELSE BSDateTime(r.val[1], r.val[2], r.val[3], 0, 0, 0, 0, "None")
         IN  cls(ad_to_bs(dt.year, dt.month, dt.day))
    ELSE Raise("TypeError")

BSDateTime_from_bs_date(bs_date) ==
    BSDateTime(bs_date.year, bs_date.month, bs_date.day, 0, 0, 0, 0, "None")

BSDateTime_combine(bs_date, t) ==
    BSDateTime(bs_date.year, bs_date.month, bs_date.day,
               t.hour, t.minute, t.second, t.microsecond, t.tzinfo)

BSDateTime_to_ad(self) ==
    LET datetime(r) ==
            IF r.kind # "ok" THEN r
            ELSE IF ~date_is_valid(r.val[1], r.val[2], r.val[3]) THEN Raise("ValueError")
            ELSE Ok(PyDateTime(r.val, self.hour, self.minute, self.second,
                               self.microsecond, self.tzinfo))
    IN  datetime(bs_to_ad(self.year, self.month, self.day))

BSDateTime_to_date(self) == BSDate(self.year, self.month, self.day)

\* replace(...): None keeps a field; the tzinfo is kept
BSDateTime_replace(self, year, month, day, hour, minute, second, microsecond) ==
    BSDateTime(IF year # None THEN year[1] ELSE self.year,
               IF month # None THEN month[1] ELSE self.month,
               IF day # None THEN day[1] ELSE self.day,
               IF hour # None THEN hour[1] ELSE self.hour,
               IF minute # None THEN minute[1] ELSE self.minute,
               IF second # None THEN second[1] ELSE self.second,
               IF microsecond # None THEN microsecond[1] ELSE self.microsecond,
               self.tzinfo)

\* BSDateTime.__add__
BSDateTime_add(self, delta) ==
    IF delta.type # "timedelta" THEN Ok("NotImplemented")
    ELSE LET from_ad(ad_dt) ==
                 IF ad_dt.kind # "ok" THEN ad_dt ELSE BSDateTime_from_ad(ad_dt.val)
             shifted(a) ==
                 IF a.kind # "ok" THEN a ELSE from_ad(datetime_add(a.val, delta))
         IN  shifted(BSDateTime_to_ad(self))

\* BSDateTime.__sub__
BSDateTime_sub(self, other) ==
    IF other.type = "timedelta" THEN BSDateTime_add(self, timedelta_neg(other))
    ELSE IF other.type = "BSDateTime"
    THEN LET difference(a, b) ==
                 IF a.kind # "ok" THEN a
                 ELSE IF b.kind # "ok" THEN b
                 ELSE datetime_sub(a.val, b.val)
         IN  difference(BSDateTime_to_ad(self), BSDateTime_to_ad(other))
    ELSE Ok("NotImplemented")


\* the comparisons of BSDateTime by to_ad(): op is <, <=, > or >= of the two
\* datetimes, taken of their comparison and 0
BSDateTime_richcmp(self, other, op) ==
    IF other.type # "BSDateTime" THEN Ok("NotImplemented")
    ELSE LET result(c) == IF c.kind # "ok" THEN c ELSE Ok(int_compare(op, c.val, 0))
             compared(a, b) ==
                 IF a.kind # "ok" THEN a
                 ELSE IF b.kind # "ok" THEN b
                 ELSE result(datetime_cmp(a.val, b.val))
         IN  compared(BSDateTime_to_ad(self), BSDateTime_to_ad(other))

\* BSDateTime.__eq__
BSDateTime_eq(self, other) ==
    IF other.type = "BSDateTime"
    THEN Ok(/\ self.year = other.year /\ self.month = other.month /\ self.day = other.day
            /\ self.hour = other.hour /\ self.minute = other.minute
            /\ self.second = other.second /\ self.microsecond = other.microsecond
            /\ tzinfo_eq(self.tzinfo, other.tzinfo))
    ELSE Ok("NotImplemented")

\* BSDateTime.__ne__: the result of __eq__ is NotImplemented when other is
\* not a BSDateTime
BSDateTime_ne(self, other) ==
    LET negated(result) == IF other.type # "BSDateTime" THEN result ELSE Ok(~result.val)
    IN  negated(BSDateTime_eq(self, other))

\* BSDateTime.__lt__
BSDateTime_lt(self, other) == BSDateTime_richcmp(self, other, "<")
\* BSDateTime.__le__
BSDateTime_le(self, other) == BSDateTime_richcmp(self, other, "<=")
\* BSDateTime.__gt__
BSDateTime_gt(self, other) == BSDateTime_richcmp(self, other, ">")
\* BSDateTime.__ge__
BSDateTime_ge(self, other) == BSDateTime_richcmp(self, other, ">=")

----------------------------------------------------------------------------
(* The calendar as the claims speak of it, read off the data alone.        *)

ValidBs(t) ==
    /\ t[1] \in BS_MIN_YEAR..BS_MAX_YEAR
    /\ t[2] \in 1..12
    /\ t[3] \in 1..CalendarData[t[1]][t[2]]

FirstBsDay == <<BS_MIN_YEAR, 1, 1>>
LastBsDay == <<BS_MAX_YEAR, 12, CalendarData[BS_MAX_YEAR][12]>>

\* the calendar day after t, rolling over the month and the year
NextBsDay(t) ==
    IF t[3] < CalendarData[t[1]][t[2]] THEN <<t[1], t[2], t[3] + 1>>
    ELSE IF t[2] < 12 THEN <<t[1], t[2] + 1, 1>>
    ELSE <<t[1] + 1, 1, 1>>

\* a day of the Gregorian calendar
CivilValid(g) ==
    /\ g[1] >= 1
    /\ g[2] \in 1..12
    /\ g[3] >= 1
    /\ g[3] <= (IF g[2] \in {4, 6, 9, 11} THEN 30
                ELSE IF g[2] # 2 THEN 31
                ELSE IF g[1] % 4 = 0 /\ (g[1] % 100 # 0 \/ g[1] % 400 = 0) THEN 29
                ELSE 28)

\* the day number of a Gregorian day, counted in years that start in March
CivilDayNumber(g) ==
    LET y == IF g[2] <= 2 THEN g[1] - 1 ELSE g[1]
        era == y \div 400
        yoe == y - era * 400
        mp == IF g[2] > 2 THEN g[2] - 3 ELSE g[2] + 9
        doy == ((153 * mp + 2) \div 5) + g[3] - 1
        doe == yoe * 365 + (yoe \div 4) - (yoe \div 100) + doy
    IN  era * 146097 + doe

\* days from the anchor 1844-04-11 to g
DaysFromAnchor(g) == CivilDayNumber(g) - CivilDayNumber(REF_AD)

----------------------------------------------------------------------------
(* Claims about the ordinal engine and the converter.                      *)

\* C1: date -> ordinal -> date gives the date back for every valid BS date,
\* and ordinal -> date -> ordinal gives the ordinal back for every ordinal
\* in 1..get_max_ordinal().
OrdinalRoundTrip ==
    pc = "returned" =>
      /\ (call.op = "bs_date_to_ordinal" /\ ValidBs(call.args)) =>
            /\ ret.kind = "ok"
            /\ ordinal_to_bs_date(ret.val) = Ok(call.args)
      /\ (call.op = "ordinal_to_bs_date" /\ call.args[1] >= 1
            /\ call.args[1] <= get_max_ordinal.val) =>
            /\ ret.kind = "ok"
            /\ bs_date_to_ordinal(ret.val[1], ret.val[2], ret.val[3]) = Ok(call.args[1])

\* a first day of a month past the first year has been converted
OrdinalRoundTripWitness ==
    /\ pc = "returned"
    /\ call.op = "bs_date_to_ordinal"
    /\ ValidBs(call.args)
    /\ call.args[1] > BS_MIN_YEAR /\ call.args[3] = 1
    /\ ret.kind = "ok"

\* C2 (as claimed): bs_date_to_ordinal and bs_to_ad raise ValueError for
\* every triple that is not a valid BS date.
DateToOrdinalValidates ==
    (/\ pc = "returned"
     /\ call.op \in {"bs_date_to_ordinal", "bs_to_ad"}
     /\ ~ValidBs(call.args))
    => ret.kind = "ValueError"

\* C3: the ordinal counts the days of the calendar without gap: the first
\* day has ordinal 1, the day after a valid day has the next ordinal, the
\* last day has get_max_ordinal(), and 0 and get_max_ordinal() + 1 are
\* refused by ordinal_to_bs_date.
OrdinalIsDense ==
    pc = "returned" =>
      /\ (call.op = "bs_date_to_ordinal" /\ ValidBs(call.args)) =>
            /\ ret.kind = "ok"
            /\ (call.args = FirstBsDay) => ret.val = 1
            /\ (call.args = LastBsDay) => ret.val = get_max_ordinal.val
            /\ (call.args # LastBsDay) =>
                  LET n == NextBsDay(call.args)
                  IN  bs_date_to_ordinal(n[1], n[2], n[3]) = Ok(ret.val + 1)
      /\ (call.op = "ordinal_to_bs_date"
            /\ call.args[1] \in {0, get_max_ordinal.val + 1}) =>
            ret.kind = "ValueError"

\* the last day of a year that is not the last one has been converted
OrdinalIsDenseWitness ==
    /\ pc = "returned"
    /\ call.op = "bs_date_to_ordinal"
    /\ ValidBs(call.args)
    /\ call.args[1] < BS_MAX_YEAR
    /\ NextBsDay(call.args) = <<call.args[1] + 1, 1, 1>>
    /\ ret.kind = "ok"

\* C4: AD -> BS -> AD gives the Gregorian day back for every day from the
\* anchor to the last table day, and BS -> AD -> BS gives the BS date back
\* for every valid BS date.
AdBsRoundTrip ==
    pc = "returned" =>
      /\ (/\ call.op = "ad_to_bs"
          /\ CivilValid(call.args)
          /\ DaysFromAnchor(call.args) >= 0
          /\ DaysFromAnchor(call.args) < TotalDays) =>
            /\ ret.kind = "ok"
            /\ bs_to_ad(ret.val[1], ret.val[2], ret.val[3]) = Ok(call.args)
      /\ (call.op = "bs_to_ad" /\ ValidBs(call.args)) =>
            /\ ret.kind = "ok"
            /\ ad_to_bs(ret.val[1], ret.val[2], ret.val[3]) = Ok(call.args)

\* a 29 February inside the table has been converted to BS
AdBsRoundTripWitness ==
    /\ pc = "returned"
    /\ call.op = "ad_to_bs"
    /\ call.args[2] = 2 /\ call.args[3] = 29
    /\ ret.kind = "ok"

\* C5: ad_to_bs(g) is ordinal_to_bs_date(k + 1), k the days from the anchor
\* to g, so the anchor maps to (1901, 1, 1); a day before the anchor, a day
\* after the table and an impossible Gregorian date raise ValueError.
AdToBsCountsFromAnchor ==
    (pc = "returned" /\ call.op = "ad_to_bs") =>
      IF /\ CivilValid(call.args)
         /\ DaysFromAnchor(call.args) >= 0
         /\ DaysFromAnchor(call.args) < TotalDays
      THEN /\ ret.kind = "ok"
           /\ ret = ordinal_to_bs_date(DaysFromAnchor(call.args) + 1)
           /\ (call.args = REF_AD) => ret.val = <<1901, 1, 1>>
      ELSE ret.kind = "ValueError"

\* the first Gregorian day after the table has been refused
AdToBsCountsFromAnchorWitness ==
    /\ pc = "returned"
    /\ call.op = "ad_to_bs"
    /\ CivilValid(call.args)
    /\ DaysFromAnchor(call.args) = TotalDays
    /\ ret.kind = "ValueError"

----------------------------------------------------------------------------
(* BSDate arithmetic, applied by an idle client to a date it constructs.   *)

MaxStep == 2
DeltaInputs ==
    ((-MaxStep)..MaxStep) \cup {-(TotalDays + 1), -366, -32, 32, 366, TotalDays + 1}

\* every BSDate the constructor accepts
BsDates ==
    {BSDate(y, m, d).val : <<y, m, d>> \in
        {t \in BsYearInputs \X MonthInputs \X DayInputs : BSDate(t[1], t[2], t[3]).kind = "ok"}}

\* the dates a difference is taken against: the first and the last day of
\* the table and the last day of the first year
ProbeDates ==
    {b \in BsDates :
        \/ <<b.year, b.month, b.day>> \in {FirstBsDay, LastBsDay}
        \/ b.year = BS_MIN_YEAR /\ NextBsDay(<<b.year, b.month, b.day>>)[1] > BS_MIN_YEAR}

CallDateAdd ==
    /\ pc = "idle"
    /\ \E d \in BsDates, n \in DeltaInputs:
          Returns("BSDate.__add__", <<d, PyInt(n)>>, BSDate_add(d, PyInt(n)))
    /\ InitializesTables

CallDateSubDays ==
    /\ pc = "idle"
    /\ \E d \in BsDates, n \in DeltaInputs:
          Returns("BSDate.__sub__", <<d, PyInt(n)>>, BSDate_sub(d, PyInt(n)))
    /\ InitializesTables

CallDateSubDate ==
    /\ pc = "idle"
    /\ \E d \in BsDates, e \in ProbeDates:
          Returns("BSDate.__sub__", <<d, e>>, BSDate_sub(d, e))
    /\ InitializesTables

NextArith ==
    \/ CallDateAdd
    \/ CallDateSubDays
    \/ CallDateSubDate
    \/ Return

SpecArith == Init /\ [][NextArith]_vars

\* the number of the day t in the table, counted from the data
RECURSIVE DaysBeforeYear(_)
DaysBeforeYear(y) ==
    IF y <= BS_MIN_YEAR THEN 0
    ELSE DaysBeforeYear(y - 1) + SumSeq(CalendarData[y - 1])

DayIndex(b) ==
    DaysBeforeYear(b.year) + SumSeq(SubSeq(CalendarData[b.year], 1, b.month - 1)) + b.day

\* the Gregorian day number of the AD date of b
AdDayNumber(b) ==
    LET g == BSDate_to_ad(b).val
    IN  date_toordinal(g.year, g.month, g.day)

\* C6: d + n is the date n days after d, in the table and in Gregorian
\* days; d - n is the date n days before d; d1 - d2 has the day count of
\* d1.to_ad() - d2.to_ad(); a date outside the table raises ValueError.
DateArithmeticCountsDays ==
    (pc = "returned" /\ call.op \in {"BSDate.__add__", "BSDate.__sub__"}) =>
      LET d == call.args[1]
          x == call.args[2]
      IN  IF x.type = "BSDate"
          THEN /\ ret.kind = "ok"
               /\ ret.val.days = DayIndex(d) - DayIndex(x)
               /\ ret.val.days = date_sub(BSDate_to_ad(d).val, BSDate_to_ad(x).val).days
          ELSE LET n == IF call.op = "BSDate.__add__" THEN x.v ELSE -x.v
               IN  IF DayIndex(d) + n \in 1..TotalDays
                   THEN /\ ret.kind = "ok"
                        /\ ret.val.type = "BSDate"
                        /\ DayIndex(ret.val) = DayIndex(d) + n
                        /\ AdDayNumber(ret.val) - AdDayNumber(d) = n
                   ELSE ret.kind = "ValueError"

\* a year has been added to a date and the sum is in the table
DateArithmeticCountsDaysWitness ==
    /\ pc = "returned"
    /\ call.op = "BSDate.__add__"
    /\ call.args[2] = PyInt(366)
    /\ ret.kind = "ok"
    /\ ret.val.year = call.args[1].year + 1

----------------------------------------------------------------------------
(* Text.  A str is a sequence of characters; a character is a             *)
(* one-character string, and a character outside ASCII is written by the   *)
(* name of its code point ("u0966" is DEVANAGARI DIGIT ZERO).              *)

\* text/constants.py MONTHS_NEPALI (colloquial), as code points
MONTHS_NEPALI ==
    << <<"u092C", "u0948", "u0936", "u093E", "u0916">>,
       <<"u091C", "u0947", "u0920">>,
       <<"u0905", "u0938", "u093E", "u0930">>,
       <<"u0938", "u093E", "u0909", "u0928">>,
       <<"u092D", "u0926", "u094C">>,
       <<"u0905", "u0938", "u094B", "u091C">>,
       <<"u0915", "u093E", "u0930", "u094D", "u0924", "u093F", "u0915">>,
       <<"u092E", "u0902", "u0938", "u093F", "u0930">>,
       <<"u092A", "u0941", "u0937">>,
       <<"u092E", "u093E", "u0918">>,
       <<"u092B", "u093E", "u0917", "u0941", "u0928">>,
       <<"u091A", "u0948", "u0924">> >>

\* text/constants.py MONTHS_NEPALI_SANSKRIT (traditional)
MONTHS_NEPALI_SANSKRIT ==
    << <<"u0935", "u0948", "u0936", "u093E", "u0916">>,
       <<"u091C", "u094D", "u092F", "u0947", "u0937", "u094D", "u0920">>,
       <<"u0906", "u0937", "u093E", "u0922">>,
       <<"u0936", "u094D", "u0930", "u093E", "u0935", "u0923">>,
       <<"u092D", "u093E", "u0926", "u094D", "u0930">>,
       <<"u0906", "u0936", "u094D", "u0935", "u093F", "u0928">>,
       <<"u0915", "u093E", "u0930", "u094D", "u0924", "u093F", "u0915">>,
       <<"u092E", "u093E", "u0930", "u094D", "u0917">>,
       <<"u092A", "u094C", "u0937">>,
       <<"u092E", "u093E", "u0918">>,
       <<"u092B", "u093E", "u0932", "u094D", "u0917", "u0941", "u0928">>,
       <<"u091A", "u0948", "u0924", "u094D", "u0930">> >>

\* text/constants.py MONTHS_ENGLISH
MONTHS_ENGLISH ==
    << <<"B", "a", "i", "s", "h", "a", "k", "h">>,
       <<"J", "e", "s", "t", "h", "a">>,
       <<"A", "s", "a", "r">>,
       <<"S", "h", "r", "a", "w", "a", "n">>,
       <<"B", "h", "a", "d", "a", "u">>,
       <<"A", "s", "o", "j">>,
       <<"K", "a", "r", "t", "i", "k">>,
       <<"M", "a", "n", "g", "s", "i", "r">>,
       <<"P", "o", "u", "s", "h">>,
       <<"M", "a", "g", "h">>,
       <<"F", "a", "l", "g", "u", "n">>,
       <<"C", "h", "a", "i", "t", "r", "a">> >>

\* text/constants.py MONTHS_ENGLISH_SHORT
MONTHS_ENGLISH_SHORT ==
    << <<"B", "a", "i">>,
       <<"J", "e", "s">>,
       <<"A", "s", "a">>,
       <<"S", "h", "r">>,
       <<"B", "h", "a">>,
       <<"A", "s", "h">>,
       <<"K", "a", "r">>,
       <<"M", "a", "n">>,
       <<"P", "o", "u">>,
       <<"M", "a", "g">>,
       <<"F", "a", "l">>,
       <<"C", "h", "a">> >>

\* text/constants.py DAYS_NEPALI (Sunday first)
DAYS_NEPALI ==
    << <<"u0906", "u0907", "u0924", "u092C", "u093E", "u0930">>,
       <<"u0938", "u094B", "u092E", "u092C", "u093E", "u0930">>,
       <<"u092E", "u0902", "u0917", "u0932", "u092C", "u093E", "u0930">>,
       <<"u092C", "u0941", "u0927", "u092C", "u093E", "u0930">>,
       <<"u092C", "u093F", "u0939", "u093F", "u092C", "u093E", "u0930">>,
       <<"u0936", "u0941", "u0915", "u094D", "u0930", "u092C", "u093E", "u0930">>,
       <<"u0936", "u0928", "u093F", "u092C", "u093E", "u0930">> >>

\* text/constants.py DAYS_NEPALI_SHORT
DAYS_NEPALI_SHORT ==
    << <<"u0906", "u0907", "u0924">>,
       <<"u0938", "u094B", "u092E">>,
       <<"u092E", "u0902", "u0917", "u0932">>,
       <<"u092C", "u0941", "u0927">>,
       <<"u092C", "u093F", "u0939", "u093F">>,
       <<"u0936", "u0941", "u0915", "u094D", "u0930">>,
       <<"u0936", "u0928", "u093F">> >>

\* text/constants.py DAYS_ENGLISH
DAYS_ENGLISH ==
    << <<"S", "u", "n", "d", "a", "y">>,
       <<"M", "o", "n", "d", "a", "y">>,
       <<"T", "u", "e", "s", "d", "a", "y">>,
       <<"W", "e", "d", "n", "e", "s", "d", "a", "y">>,
       <<"T", "h", "u", "r", "s", "d", "a", "y">>,
       <<"F", "r", "i", "d", "a", "y">>,
       <<"S", "a", "t", "u", "r", "d", "a", "y">> >>

\* text/constants.py DAYS_ENGLISH_SHORT
DAYS_ENGLISH_SHORT ==
    << <<"S", "u", "n">>,
       <<"M", "o", "n">>,
       <<"T", "u", "e">>,
       <<"W", "e", "d">>,
       <<"T", "h", "u">>,
       <<"F", "r", "i">>,
       <<"S", "a", "t">> >>

\* text/constants.py TIME_PERIODS_NEPALI
TIME_PERIODS_NEPALI ==
    [morning |-> <<"u092C", "u093F", "u0939", "u093E", "u0928">>,
     afternoon |-> <<"u0926", "u093F", "u0909", "u0901", "u0938", "u094B">>,
     evening |-> <<"u092C", "u0947", "u0932", "u0941", "u0915", "u093E">>,
     night |-> <<"u0930", "u093E", "u0924", "u093F">>]

\* numbers/devanagari.py: the digits of the two translation tables
ASCII_DIGITS == <<"0", "1", "2", "3", "4", "5", "6", "7", "8", "9">>
DEVANAGARI_DIGITS == <<"u0966", "u0967", "u0968", "u0969", "u096A", "u096B", "u096C", "u096D", "u096E", "u096F">>

\* dates/timezone.py NEPAL_TIMEZONE
NEPAL_TIMEZONE == <<"A", "s", "i", "a", "/", "K", "a", "t", "h", "m", "a", "n", "d", "u">>

LOWERCASE == <<"a", "b", "c", "d", "e", "f", "g", "h", "i", "j", "k", "l", "m", "n", "o", "p", "q", "r", "s", "t", "u", "v", "w", "x", "y", "z">>
UPPERCASE == <<"A", "B", "C", "D", "E", "F", "G", "H", "I", "J", "K", "L", "M", "N", "O", "P", "Q", "R", "S", "T", "U", "V", "W", "X", "Y", "Z">>
\* str.isspace() characters of the model's alphabet
WHITESPACE == {" ", "\t", "\n", "\r", "\f"}

Range(s) == {s[i] : i \in 1..Len(s)}
IndexOf(s, c) == CHOOSE i \in 1..Len(s) : s[i] = c

\* str.translate with a table made by str.maketrans(from, to)
translate(s, from, to) ==
    [i \in 1..Len(s) |-> IF s[i] \in Range(from) THEN to[IndexOf(from, s[i])] ELSE s[i]]

\* numbers/devanagari.py
\* Mutant: the zero is left as an ASCII digit.
to_devanagari_nonzero(value) == translate(value, Tail(ASCII_DIGITS), Tail(DEVANAGARI_DIGITS))
to_devanagari(value) == translate(value, ASCII_DIGITS, DEVANAGARI_DIGITS)
from_devanagari(value) == translate(value, DEVANAGARI_DIGITS, ASCII_DIGITS)

str_upper(s) == translate(s, LOWERCASE, UPPERCASE)
str_lower(s) == translate(s, UPPERCASE, LOWERCASE)

\* sub in s
str_contains(s, sub) ==
    \E i \in 1..(Len(s) - Len(sub) + 1) : SubSeq(s, i, i + Len(sub) - 1) = sub

\* s.replace(old, new): every occurrence, left to right, not overlapping
RECURSIVE str_replace(_, _, _)
str_replace(s, old, new) ==
    IF Len(s) < Len(old) THEN s
    ELSE IF SubSeq(s, 1, Len(old)) = old
    THEN new \o str_replace(SubSeq(s, Len(old) + 1, Len(s)), old, new)
    ELSE <<Head(s)>> \o str_replace(Tail(s), old, new)

\* s.strip()
RECURSIVE str_lstrip(_)
str_lstrip(s) ==
    IF s # <<>> /\ Head(s) \in WHITESPACE THEN str_lstrip(Tail(s)) ELSE s
RECURSIVE str_rstrip(_)
str_rstrip(s) ==
    IF s # <<>> /\ s[Len(s)] \in WHITESPACE THEN str_rstrip(SubSeq(s, 1, Len(s) - 1)) ELSE s
str_strip(s) == str_rstrip(str_lstrip(s))

\* s.ljust(width, fill)
str_ljust(s, width, fill) == s \o [i \in 1..(width - Len(s)) |-> fill]

\* str(n) for an int n
RECURSIVE str_nat(_)
str_nat(n) ==
    IF n < 10 THEN <<ASCII_DIGITS[n + 1]>>
    ELSE str_nat(n \div 10) \o <<ASCII_DIGITS[(n % 10) + 1]>>
str_int(n) == IF n < 0 THEN <<"-">> \o str_nat(-n) ELSE str_nat(n)

\* f"{n:0<width>d}"
format_d(n, width) ==
    IF n < 0 THEN <<"-">> \o [i \in 1..(width - 1 - Len(str_nat(-n))) |-> "0"] \o str_nat(-n)
    ELSE [i \in 1..(width - Len(str_nat(n))) |-> "0"] \o str_nat(n)

\* int(s) for a str of decimal digits; int() reads the digits of every
\* script by their value
DigitValue(c) ==
    IF c \in Range(ASCII_DIGITS) THEN IndexOf(ASCII_DIGITS, c) - 1
    ELSE IndexOf(DEVANAGARI_DIGITS, c) - 1
RECURSIVE int_of(_)
int_of(s) ==
    IF Len(s) = 1 THEN DigitValue(s[1])
    ELSE int_of(SubSeq(s, 1, Len(s) - 1)) * 10 + DigitValue(s[Len(s)])

PyStr(s) == [type |-> "str", v |-> s]

----------------------------------------------------------------------------
(* bs_date.py / bs_datetime.py: weekday; format_codes.py: the format      *)
(* codes and format_bs_datetime.                                           *)

\* datetime.date.weekday(): Monday is 0
date_weekday(d) == (date_toordinal(d.year, d.month, d.day) + 6) % 7

\* BSDate.weekday and BSDateTime.weekday: Sunday is 0
BS_weekday(self) ==
    LET weekday(r) ==
            IF r.kind # "ok" THEN r
            ELSE IF ~date_is_valid(r.val[1], r.val[2], r.val[3]) THEN Raise("ValueError")
            ELSE Ok((date_weekday(PyDate(r.val)) + 1) % 7)
    IN  weekday(bs_to_ad(self.year, self.month, self.day))

\* getattr(o, name, default)
getattr(o, name, default) == IF name \in DOMAIN o THEN o[name] ELSE default

get_nepali_time_period(hour) ==
    IF 4 <= hour /\ hour < 12 THEN TIME_PERIODS_NEPALI.morning
    ELSE IF 12 <= hour /\ hour < 16 THEN TIME_PERIODS_NEPALI.afternoon
    ELSE IF 16 <= hour /\ hour < 20 THEN TIME_PERIODS_NEPALI.evening
    ELSE TIME_PERIODS_NEPALI.night

format_timezone_offset(date_obj) ==
    IF "tzinfo" \notin DOMAIN date_obj \/ date_obj.tzinfo = "None" THEN <<>>
    ELSE LET offset == utcoffset(date_obj.tzinfo)
         IN  IF offset = None THEN <<>>
             ELSE LET sign == IF offset[1] >= 0 THEN "+" ELSE "-"
                      total_seconds == IF offset[1] >= 0 THEN offset[1] ELSE -offset[1]
                      hours == total_seconds \div 3600
                      minutes == (total_seconds % 3600) \div 60
                  IN  <<sign>> \o format_d(hours, 2) \o format_d(minutes, 2)

\* NepaliTimeZone.tzname and that of timezone.utc
tzname(tzinfo) ==
    IF tzinfo = "NPT" THEN Some(NEPAL_TIMEZONE)
    ELSE IF tzinfo = "UTC" THEN Some(<<"U", "T", "C">>) ELSE None

\* date_obj.tzinfo.tzname(None) or ''
format_timezone_name(date_obj) ==
    IF "tzinfo" \notin DOMAIN date_obj \/ date_obj.tzinfo = "None" THEN <<>>
    ELSE LET name == tzname(date_obj.tzinfo)
         IN  IF name = None THEN <<>> ELSE name[1]

\* the value of a name list at the weekday of o
weekday_name(names, o) ==
    LET name(w) == IF w.kind # "ok" THEN w ELSE Ok(names[w.val + 1])
    IN  name(BS_weekday(o))

\* '%j': o.toordinal() - o.replace(month=1, day=1).toordinal() + 1; only a
\* BSDate has toordinal
day_of_year(o) ==
    IF o.type # "BSDate" THEN Raise("AttributeError")
    ELSE LET counted(a, b) ==
                 IF b.kind # "ok" THEN b ELSE Ok(format_d(a.val - b.val + 1, 3))
             from(a, first) ==
                 IF a.kind # "ok" THEN a
                 ELSE IF first.kind # "ok" THEN first
                 ELSE counted(a, BSDate_toordinal(first.val))
         IN  from(BSDate_toordinal(o), BSDate_replace(o, None, Some(1), Some(1)))

\* ALL_FORMAT_CODES[code](o), code being "%" and the letter
formatter(letter, o) ==
    CASE letter = "Y" -> Ok(format_d(o.year, 4))
      [] letter = "y" -> Ok(format_d(o.year % 100, 2))
      [] letter = "m" -> Ok(format_d(o.month, 2))
      [] letter = "d" -> Ok(format_d(o.day, 2))
      [] letter = "B" -> Ok(MONTHS_ENGLISH[o.month])
      [] letter = "b" -> Ok(MONTHS_ENGLISH_SHORT[o.month])
      [] letter = "A" -> weekday_name(DAYS_ENGLISH, o)
      [] letter = "a" -> weekday_name(DAYS_ENGLISH_SHORT, o)
      [] letter = "w" -> LET number(w) == IF w.kind # "ok" THEN w ELSE Ok(str_int(w.val))
                         IN  number(BS_weekday(o))
      [] letter = "j" -> day_of_year(o)
      [] letter = "H" -> Ok(format_d(getattr(o, "hour", 0), 2))
      [] letter = "I" -> LET h == getattr(o, "hour", 0) % 12
                         IN  Ok(format_d(IF h # 0 THEN h ELSE 12, 2))
      [] letter = "M" -> Ok(format_d(getattr(o, "minute", 0), 2))
      [] letter = "S" -> Ok(format_d(getattr(o, "second", 0), 2))
      [] letter = "f" -> Ok(format_d(getattr(o, "microsecond", 0), 6))
      [] letter = "p" -> Ok(IF getattr(o, "hour", 0) >= 12 THEN <<"P", "M">> ELSE <<"A", "M">>)
      [] letter = "z" -> Ok(format_timezone_offset(o))
      [] letter = "Z" -> Ok(format_timezone_name(o))
      [] letter = "%" -> Ok(<<"%">>)
      [] letter = "D" -> Ok(to_devanagari(format_d(o.day, 2)))
      [] letter = "n" -> Ok(to_devanagari(format_d(o.month, 2)))
      [] letter = "N" -> Ok(MONTHS_NEPALI[o.month])
      [] letter = "K" -> Ok(to_devanagari(format_d(o.year, 4)))
      [] letter = "k" -> Ok(to_devanagari(format_d(o.year % 100, 2)))
      [] letter = "G" -> weekday_name(DAYS_NEPALI, o)
      [] letter = "g" -> weekday_name(DAYS_NEPALI_SHORT, o)
      [] letter = "h" -> Ok(to_devanagari(format_d(getattr(o, "hour", 0), 2)))
      [] letter = "i" -> Ok(to_devanagari(format_d(getattr(o, "minute", 0), 2)))
      [] letter = "s" -> Ok(to_devanagari(format_d(getattr(o, "second", 0), 2)))
      [] letter = "P" -> Ok(get_nepali_time_period(getattr(o, "hour", 0)))

\* the keys of ALL_FORMAT_CODES in the order of the dict: STANDARD_CODES,
\* then NEPALI_CODES
ALL_FORMAT_CODES ==
    <<"Y", "y", "m", "d", "B", "b", "A", "a", "w", "j", "H", "I", "M", "S", "f", "p",
      "z", "Z", "%", "D", "n", "N", "K", "k", "G", "g", "h", "i", "s", "P">>

\* the value substituted for a code
code_value(letter, date_obj, style) ==
    IF letter = "N" /\ style = "sanskrit" THEN Ok(MONTHS_NEPALI_SANSKRIT[date_obj.month])
    ELSE formatter(letter, date_obj)

\* Mutant: an exception of a formatter is not caught.
RECURSIVE format_codes_loop_no_except(_, _, _, _)
format_codes_loop_no_except(date_obj, result, style, i) ==
    IF i > Len(ALL_FORMAT_CODES) THEN Ok(PyStr(result))
    ELSE LET code == <<"%", ALL_FORMAT_CODES[i]>>
         IN  IF ~str_contains(result, code)
             THEN format_codes_loop_no_except(date_obj, result, style, i + 1)
             ELSE LET replaced(value) ==
                          IF value.kind = "ok"
                          THEN format_codes_loop_no_except(
                                   date_obj, str_replace(result, code, value.val), style, i + 1)
                          ELSE value
                  IN  replaced(code_value(ALL_FORMAT_CODES[i], date_obj, style))

\* the loop of format_bs_datetime over ALL_FORMAT_CODES.items(), from the
\* i-th code on
RECURSIVE format_codes_loop(_, _, _, _)
format_codes_loop(date_obj, result, style, i) ==
    IF i > Len(ALL_FORMAT_CODES) THEN Ok(PyStr(result))
    ELSE LET code == <<"%", ALL_FORMAT_CODES[i]>>
         IN  IF ~str_contains(result, code)
             THEN format_codes_loop(date_obj, result, style, i + 1)
             ELSE LET replaced(value) ==
                          IF value.kind = "ok"
                          THEN format_codes_loop(
                                   date_obj, str_replace(result, code, value.val), style, i + 1)
                          ELSE format_codes_loop(date_obj, result, style, i + 1)
                  IN  replaced(code_value(ALL_FORMAT_CODES[i], date_obj, style))

format_bs_datetime(date_obj, fmt, style) ==
    IF ~str_contains(fmt, <<"%">>) THEN Ok(PyStr(fmt))
    ELSE format_codes_loop(date_obj, fmt, style, 1)

\* BSDate.strftime and BSDateTime.strftime
strftime(self, fmt, style) == format_bs_datetime(self, fmt, style)

----------------------------------------------------------------------------
(* Regular expressions, as parser.py uses them.  A compiled pattern is a   *)
(* sequence of elements; every pattern of parser.py is anchored by ^ and   *)
(* $, and so is the match.                                                 *)

\* the quantifiers + and * have no upper bound: a count no text reaches
MAXREPEAT == 2147483647

\* a character class, or a literal character ch, repeated min..max times,
\* greedily; grp names the capturing group around it ("" for none)
Rep(cls, ch, min, max, grp) ==
    [k |-> "rep", cls |-> cls, ch |-> ch, min |-> min, max |-> max, grp |-> grp]
Lit(c) == Rep("lit", c, 1, 1, "")
\* (w1|w2|...), tried from the left
Alt(words, grp) == [k |-> "alt", words |-> words, grp |-> grp]
\* (?:body)?
Opt(body) == [k |-> "opt", body |-> body]

\* \d matches the decimal digits of every script, \s every whitespace
InClass(c, e) ==
    CASE e.cls = "lit" -> c = e.ch
      [] e.cls = "\\d" -> c \in Range(ASCII_DIGITS) \cup Range(DEVANAGARI_DIGITS)
      [] e.cls = "[u0966-u096F]" -> c \in Range(DEVANAGARI_DIGITS)
      [] e.cls = "\\s" -> c \in WHITESPACE
      [] e.cls = "[A-Za-z]" -> c \in Range(LOWERCASE) \cup Range(UPPERCASE)
      [] e.cls = "[^\\d\\s]" ->
            c \notin Range(ASCII_DIGITS) \cup Range(DEVANAGARI_DIGITS) \cup WHITESPACE
      [] e.cls = "[-/]" -> c \in {"-", "/"}

\* how many characters from pos on are in the class of e, up to limit
RECURSIVE run_length(_, _, _, _)
run_length(text, pos, e, limit) ==
    IF limit = 0 \/ pos > Len(text) \/ ~InClass(text[pos], e) THEN 0
    ELSE 1 + run_length(text, pos + 1, e, limit - 1)

NoMatch == [ok |-> FALSE, groups |-> <<>>]

capture(groups, grp, s) == IF grp = "" THEN groups ELSE (grp :> s) @@ groups

\* the backtracking match of pat against text from pos on; $ matches at
\* the end and before a newline that ends the text
RECURSIVE re_match_at(_, _, _, _)
RECURSIVE try_counts(_, _, _, _, _, _)
RECURSIVE try_words(_, _, _, _, _, _)
re_match_at(pat, text, pos, groups) ==
    IF Len(pat) = 0
    THEN IF pos = Len(text) + 1 \/ (pos = Len(text) /\ text[pos] = "\n")
         THEN [ok |-> TRUE, groups |-> groups]
         ELSE NoMatch
    ELSE LET e == Head(pat)
         IN  CASE e.k = "rep" ->
                    try_counts(e, Tail(pat), text, pos, groups,
                               run_length(text, pos, e, e.max))
               [] e.k = "alt" -> try_words(e, Tail(pat), text, pos, groups, 1)
               [] e.k = "opt" ->
                    LET with == re_match_at(e.body \o Tail(pat), text, pos, groups)
                    IN  IF with.ok THEN with
                        ELSE re_match_at(Tail(pat), text, pos, groups)
try_counts(e, rest, text, pos, groups, n) ==
    IF n < e.min THEN NoMatch
    ELSE LET r == re_match_at(rest, text, pos + n,
                              capture(groups, e.grp, SubSeq(text, pos, pos + n - 1)))
         IN  IF r.ok THEN r ELSE try_counts(e, rest, text, pos, groups, n - 1)
try_words(e, rest, text, pos, groups, i) ==
    IF i > Len(e.words) THEN NoMatch
    ELSE LET w == e.words[i]
             r == IF pos + Len(w) - 1 <= Len(text) /\ SubSeq(text, pos, pos + Len(w) - 1) = w
                  THEN re_match_at(rest, text, pos + Len(w), capture(groups, e.grp, w))
                  ELSE NoMatch
         IN  IF r.ok THEN r ELSE try_words(e, rest, text, pos, groups, i + 1)

\* pattern.match(text) for a pattern "^...$"
re_match(pat, text) == re_match_at(pat, text, 1, [name \in {} |-> <<>>])

\* the characters re.escape puts a backslash before
RE_SPECIAL ==
    {"(", ")", "[", "]", "{", "}", "?", "*", "+", "-", "|", "^", "$", "\\", ".",
     "&", "~", "#", " ", "\t", "\n", "\r", "\f"}

RECURSIVE re_escape(_)
re_escape(s) ==
    IF s = <<>> THEN <<>>
    ELSE (IF Head(s) \in RE_SPECIAL THEN <<"\\", Head(s)>> ELSE <<Head(s)>>)
            \o re_escape(Tail(s))

----------------------------------------------------------------------------
(* parser.py: strptime with a template.  In the text of a pattern the     *)
(* regex of a format code is one token, named by its source text.          *)

\* _FORMAT_CODE_PATTERNS, in the order of the dict; the words of %P are
\* the four of TIME_PERIODS_NEPALI
FORMAT_CODE_PATTERNS ==
    << [code |-> "Y", regex |-> "(?P<Y>\\d{4})",
        elem |-> Rep("\\d", "", 4, 4, "Y")],
       [code |-> "y", regex |-> "(?P<y>\\d{2})",
        elem |-> Rep("\\d", "", 2, 2, "y")],
       [code |-> "m", regex |-> "(?P<m>\\d{1,2})",
        elem |-> Rep("\\d", "", 1, 2, "m")],
       [code |-> "d", regex |-> "(?P<d>\\d{1,2})",
        elem |-> Rep("\\d", "", 1, 2, "d")],
       [code |-> "K", regex |-> "(?P<K>[u0966-u096F]{4})",
        elem |-> Rep("[u0966-u096F]", "", 4, 4, "K")],
       [code |-> "k", regex |-> "(?P<k>[u0966-u096F]{2})",
        elem |-> Rep("[u0966-u096F]", "", 2, 2, "k")],
       [code |-> "n", regex |-> "(?P<n>[u0966-u096F]{1,2})",
        elem |-> Rep("[u0966-u096F]", "", 1, 2, "n")],
       [code |-> "D", regex |-> "(?P<D>[u0966-u096F]{1,2})",
        elem |-> Rep("[u0966-u096F]", "", 1, 2, "D")],
       [code |-> "H", regex |-> "(?P<H>\\d{1,2})",
        elem |-> Rep("\\d", "", 1, 2, "H")],
       [code |-> "I", regex |-> "(?P<I>\\d{1,2})",
        elem |-> Rep("\\d", "", 1, 2, "I")],
       [code |-> "M", regex |-> "(?P<M>\\d{1,2})",
        elem |-> Rep("\\d", "", 1, 2, "M")],
       [code |-> "S", regex |-> "(?P<S>\\d{1,2})",
        elem |-> Rep("\\d", "", 1, 2, "S")],
       [code |-> "f", regex |-> "(?P<f>\\d{1,6})",
        elem |-> Rep("\\d", "", 1, 6, "f")],
       [code |-> "p", regex |-> "(?P<p>AM|PM|am|pm)",
        elem |-> Alt(<< <<"A", "M">>, <<"P", "M">>, <<"a", "m">>, <<"p", "m">> >>, "p")],
       [code |-> "h", regex |-> "(?P<h>[u0966-u096F]{1,2})",
        elem |-> Rep("[u0966-u096F]", "", 1, 2, "h")],
       [code |-> "i", regex |-> "(?P<i>[u0966-u096F]{1,2})",
        elem |-> Rep("[u0966-u096F]", "", 1, 2, "i")],
       [code |-> "s", regex |-> "(?P<s>[u0966-u096F]{1,2})",
        elem |-> Rep("[u0966-u096F]", "", 1, 2, "s")],
       [code |-> "P", regex |-> "(?P<P>morning|afternoon|evening|night)",
        elem |-> Alt(<< <<"u092C", "u093F", "u0939", "u093E", "u0928">>,
                        <<"u0926", "u093F", "u0909", "u0901", "u0938", "u094B">>,
                        <<"u092C", "u0947", "u0932", "u0941", "u0915", "u093E">>,
                        <<"u0930", "u093E", "u0924", "u093F">> >>, "P")],
       [code |-> "%", regex |-> "%", elem |-> Lit("%")] >>

\* the loop of _compile_format over _FORMAT_CODE_PATTERNS.items()
RECURSIVE replace_codes(_, _)
replace_codes(pattern_str, i) ==
    IF i > Len(FORMAT_CODE_PATTERNS) THEN pattern_str
    ELSE replace_codes(
             str_replace(pattern_str, re_escape(<<"%", FORMAT_CODE_PATTERNS[i].code>>),
                         <<FORMAT_CODE_PATTERNS[i].regex>>),
             i + 1)

\* re.compile of the text _compile_format has built
RECURSIVE re_compile(_)
re_compile(pattern_str) ==
    IF pattern_str = <<>> THEN <<>>
    ELSE IF Head(pattern_str) = "\\"
    THEN <<Lit(pattern_str[2])>> \o re_compile(SubSeq(pattern_str, 3, Len(pattern_str)))
    ELSE IF Head(pattern_str) = "\\s+"
    THEN <<Rep("\\s", "", 1, MAXREPEAT, "")>> \o re_compile(Tail(pattern_str))
    ELSE IF \E i \in 1..Len(FORMAT_CODE_PATTERNS) :
                FORMAT_CODE_PATTERNS[i].regex = Head(pattern_str)
    THEN <<FORMAT_CODE_PATTERNS[
               CHOOSE i \in 1..Len(FORMAT_CODE_PATTERNS) :
                   FORMAT_CODE_PATTERNS[i].regex = Head(pattern_str)].elem>>
             \o re_compile(Tail(pattern_str))
    ELSE <<Lit(Head(pattern_str))>> \o re_compile(Tail(pattern_str))

\* _compile_format; re.compile refuses a group name used twice
compile_format(fmt) ==
    LET pattern_str == str_replace(replace_codes(re_escape(fmt), 1),
                                   <<"\\", " ">>, <<"\\s+">>)
        compiled(pat) ==
            IF \E i, j \in 1..Len(pat) : i < j /\ pat[i].grp # "" /\ pat[i].grp = pat[j].grp
            THEN Raise("re.error")
            ELSE Ok(pat)
    IN  compiled(re_compile(pattern_str))

\* Mutant: only the last two digits of a group are read.
group_int_two_digits(groups, name) == int_of(groups[name]) % 100

\* groups['x'] read as a decimal number
group_int(groups, name) == int_of(groups[name])
group_nepali_int(groups, name) == int_of(from_devanagari(groups[name]))

\* Mutant: PM adds twelve hours to every hour.
to_24_hour_pm_adds(hour, ampm) ==
    IF ampm = <<"P", "M">> THEN hour + 12
    ELSE IF ampm = <<"A", "M">> /\ hour = 12 THEN 0
    ELSE hour

\* the hour after the AM/PM conversion
to_24_hour(hour, ampm) ==
    IF ampm = <<"P", "M">> /\ hour # 12 THEN hour + 12
    ELSE IF ampm = <<"A", "M">> /\ hour = 12 THEN 0
    ELSE hour

parse_bs_datetime(date_string, fmt) ==
    LET built(match) ==
             LET groups == match.groups
                 has(name) == name \in DOMAIN groups
                 year == IF has("Y") THEN group_int(groups, "Y")
                         ELSE IF has("K") THEN group_nepali_int(groups, "K")
                         ELSE IF has("y") THEN 2000 + group_int(groups, "y")
                         ELSE IF has("k") THEN 2000 + group_nepali_int(groups, "k")
                         ELSE 0
                 month == IF has("m") THEN group_int(groups, "m")
                          ELSE IF has("n") THEN group_nepali_int(groups, "n")
                          ELSE 0
                 day == IF has("d") THEN group_int(groups, "d")
                        ELSE IF has("D") THEN group_nepali_int(groups, "D")
                        ELSE 0
                 hour == IF has("H") THEN group_int(groups, "H")
                         ELSE IF has("h") THEN group_nepali_int(groups, "h")
                         ELSE IF has("I") THEN group_int(groups, "I")
                         ELSE 0
                 minute == IF has("M") THEN group_int(groups, "M")
                           ELSE IF has("i") THEN group_nepali_int(groups, "i")
                           ELSE 0
                 second == IF has("S") THEN group_int(groups, "S")
                           ELSE IF has("s") THEN group_nepali_int(groups, "s")
                           ELSE 0
                 microsecond == IF has("f")
                                THEN int_of(SubSeq(str_ljust(groups["f"], 6, "0"), 1, 6))
                                ELSE 0
                 hour24 == IF has("p") THEN to_24_hour(hour, str_upper(groups["p"]))
                           ELSE hour
             IN  IF ~match.ok THEN Raise("ValueError")
                 ELSE BSDateTime(year, month, day, hour24, minute, second, microsecond,
                                 "None")
        matched(pattern) ==
            IF pattern.kind # "ok" THEN pattern
            ELSE built(re_match(pattern.val, date_string))
    IN  matched(compile_format(fmt))

\* BSDateTime.strptime
BSDateTime_strptime(date_string, fmt) == parse_bs_datetime(date_string, fmt)

----------------------------------------------------------------------------
(* parser.py: parse with the format detected.                              *)

\* the pairs (name, number) put into _MONTH_NAME_TO_NUM, in the order of
\* the assignments
MONTH_NAME_ENTRIES ==
    [i \in 1..24 |->
        IF i % 2 = 1 THEN <<str_lower(MONTHS_ENGLISH[(i + 1) \div 2]), (i + 1) \div 2>>
        ELSE <<str_lower(SubSeq(MONTHS_ENGLISH[i \div 2], 1, 3)), i \div 2>>]
    \o [i \in 1..12 |-> <<MONTHS_NEPALI[i], i>>]
    \o [i \in 1..12 |-> <<MONTHS_NEPALI_SANSKRIT[i], i>>]

\* _MONTH_NAME_TO_NUM.get(name): the last assignment to a key stays
month_name_to_num(name) ==
    LET last(entries, hits) ==
            IF hits = {} THEN None
            ELSE Some(entries[CHOOSE i \in hits : \A j \in hits : j <= i][2])
        get(entries) == last(entries, {i \in 1..Len(entries) : entries[i][1] = name})
    IN  get(MONTH_NAME_ENTRIES)

parse_month_name(name) ==
    LET direct(num) == IF num # None THEN num ELSE month_name_to_num(str_lower(name))
    IN  direct(month_name_to_num(name))

\* the elements the patterns share
YEAR_MONTH_DAY ==
    <<Rep("\\d", "", 4, 4, "1"), Rep("[-/]", "", 1, 1, ""), Rep("\\d", "", 1, 2, "2"),
      Rep("[-/]", "", 1, 1, ""), Rep("\\d", "", 1, 2, "3")>>
SPACES == Rep("\\s", "", 1, MAXREPEAT, "")
\* (?:,?\s+)
COMMA_SPACES == <<Rep("lit", ",", 0, 1, ""), SPACES>>

\* _DATE_PATTERNS
DATE_PATTERNS ==
    << [type |-> "datetime",
        pattern |-> YEAR_MONTH_DAY \o
            <<SPACES, Rep("\\d", "", 1, 2, "4"), Lit(":"), Rep("\\d", "", 2, 2, "5"),
              Opt(<<Lit(":"), Rep("\\d", "", 2, 2, "6")>>),
              Opt(<<Lit("."), Rep("\\d", "", 1, MAXREPEAT, "7")>>)>>],
       [type |-> "date", pattern |-> YEAR_MONTH_DAY],
       [type |-> "named_month",
        pattern |-> <<Rep("[A-Za-z]", "", 1, MAXREPEAT, "1"), SPACES,
                      Rep("\\d", "", 1, 2, "2")>> \o COMMA_SPACES
                      \o <<Rep("\\d", "", 4, 4, "3")>>],
       [type |-> "named_month",
        pattern |-> <<Rep("[^\\d\\s]", "", 1, MAXREPEAT, "1"), SPACES,
                      Rep("\\d", "", 1, 2, "2")>> \o COMMA_SPACES
                      \o <<Rep("\\d", "", 4, 4, "3")>>],
       [type |-> "day_month_year",
        pattern |-> <<Rep("\\d", "", 1, 2, "1"), SPACES,
                      Rep("[A-Za-z]", "", 1, MAXREPEAT, "2")>> \o COMMA_SPACES
                      \o <<Rep("\\d", "", 4, 4, "3")>>],
       [type |-> "datetime_ampm",
        pattern |-> YEAR_MONTH_DAY \o
            <<SPACES, Rep("\\d", "", 1, 2, "4"), Lit(":"), Rep("\\d", "", 2, 2, "5"),
              Rep("\\s", "", 0, MAXREPEAT, ""),
              Alt(<< <<"A", "M">>, <<"P", "M">>, <<"a", "m">>, <<"p", "m">> >>, "6")>>],
       [type |-> "short_year",
        pattern |-> <<Rep("\\d", "", 2, 2, "1"), Rep("[-/]", "", 1, 1, ""),
                      Rep("\\d", "", 1, 2, "2"), Rep("[-/]", "", 1, 1, ""),
                      Rep("\\d", "", 1, 2, "3")>>] >>

\* the body of the loop of parse for a pattern that matched: the value
\* returned, or "continue" when the loop goes on to the next pattern
parse_matched(type, groups) ==
    LET g(name) == int_of(groups[name])
        built(r) == IF r.kind = "ok" THEN r ELSE [kind |-> "continue"]
        dated(year, month, day) ==
            IF is_valid_bs_date(year, month, day) THEN built(BSDate(year, month, day))
            ELSE [kind |-> "continue"]
        timed(year, month, day, hour, minute, second, microsecond) ==
            IF is_valid_bs_date(year, month, day)
            THEN built(BSDateTime(year, month, day, hour, minute, second, microsecond,
                                  "None"))
            ELSE [kind |-> "continue"]
        named(year, month, day) ==
            IF month = None THEN [kind |-> "continue"] ELSE dated(year, month[1], day)
    IN  CASE type = "date" -> dated(g("1"), g("2"), g("3"))
          [] type = "datetime" ->
                timed(g("1"), g("2"), g("3"), g("4"), g("5"),
                      IF "6" \in DOMAIN groups THEN g("6") ELSE 0,
                      IF "7" \in DOMAIN groups THEN g("7") ELSE 0)
          [] type = "datetime_ampm" ->
                timed(g("1"), g("2"), g("3"), to_24_hour(g("4"), str_upper(groups["6"])),
                      g("5"), 0, 0)
          [] type = "named_month" -> named(g("3"), parse_month_name(groups["1"]), g("2"))
          [] type = "day_month_year" -> named(g("3"), parse_month_name(groups["2"]), g("1"))
          [] type = "short_year" ->
                dated(IF g("1") < 50 THEN 2000 + g("1") ELSE 1900 + g("1"), g("2"), g("3"))

\* Mutant: the loop ends at the first pattern that does not match.
RECURSIVE parse_patterns_first_only(_, _)
parse_patterns_first_only(normalized, i) ==
    IF i > Len(DATE_PATTERNS) THEN Raise("ValueError")
    ELSE LET returned(r) ==
                 IF r.kind = "ok" THEN r ELSE parse_patterns_first_only(normalized, i + 1)
             matched(match) ==
                 IF ~match.ok THEN Raise("ValueError")
                 ELSE returned(parse_matched(DATE_PATTERNS[i].type, match.groups))
         IN  matched(re_match(DATE_PATTERNS[i].pattern, normalized))

\* the loop of parse over _DATE_PATTERNS, from the i-th pattern on
RECURSIVE parse_patterns(_, _)
parse_patterns(normalized, i) ==
    IF i > Len(DATE_PATTERNS) THEN Raise("ValueError")
    ELSE LET returned(r) == IF r.kind = "ok" THEN r ELSE parse_patterns(normalized, i + 1)
             matched(match) ==
                 IF ~match.ok THEN parse_patterns(normalized, i + 1)
                 ELSE returned(parse_matched(DATE_PATTERNS[i].type, match.groups))
         IN  matched(re_match(DATE_PATTERNS[i].pattern, normalized))

\* Mutant: the text is not stripped.
parse_unstripped(date_string) == parse_patterns(from_devanagari(date_string), 1)

parse(date_string) == parse_patterns(from_devanagari(str_strip(date_string)), 1)

----------------------------------------------------------------------------
(* Formatting and parsing with a template, called by an idle client on a  *)
(* value it has constructed.                                               *)

ISO_TEMPLATE == <<"%", "Y", "-", "%", "m", "-", "%", "d">>

\* every code alone, and templates that mix codes, literal text, unknown
\* codes and doubled percent signs
Templates ==
    {<<"%", ALL_FORMAT_CODES[i]>> : i \in 1..Len(ALL_FORMAT_CODES)} \cup
    {ISO_TEMPLATE,
     <<"%", "Y", "-", "%", "m", "-", "%", "d", " ", "%", "H", ":", "%", "M", ":", "%", "S">>,
     <<"%", "D", " ", "%", "N", ",", " ", "%", "K">>,
     <<"%", "d", " ", "%", "B", " ", "%", "Y">>,
     <<"a", "b", "c">>,
     <<"%">>,
     <<"%", "Q">>,
     <<"%", "%", "Y">>,
     <<"1", "0", "0", "%", "%">>,
     <<"%", "j", " ", "%", "H">>,
     <<"%", "%", "j">>,
     <<"%", "A", " ", "%", "I", ":", "%", "M", " ", "%", "p">>,
     <<"%", "K", "-", "%", "n", "-", "%", "D">>,
     <<"%", "%", "D">>,
     <<"%", "k", " ", "%", "h", ":", "%", "i", ":", "%", "s">>}

Styles == {"formal", "sanskrit", "colloquial"}

\* the times of day of the BSDateTime values: <<hour, minute, second, microsecond>>
ProbeTimes ==
    {<<0, 0, 0, 0>>, <<4, 30, 0, 0>>, <<12, 0, 0, 0>>, <<13, 5, 9, 123>>,
     <<16, 7, 8, 0>>, <<23, 59, 59, 999999>>}

\* every BSDate at midnight
Midnights == {BSDateTime_from_bs_date(b).val : b \in BsDates}

\* the values rendered with every template: the first and the last days of
\* the months, and datetimes on the probe dates
FormatValues ==
    {b \in BsDates : b.day = 1 \/ <<b.year, b.month, b.day + 1>> # NextBsDay(<<b.year, b.month, b.day>>)}
    \cup {BSDateTime(b.year, b.month, b.day, t[1], t[2], t[3], t[4], tz).val :
            b \in ProbeDates, t \in ProbeTimes, tz \in {"None", "NPT"}}

\* the calls of strftime: the probe values with every template and style,
\* every date and every midnight with the ISO template
FormatCalls ==
    (FormatValues \X Templates \X Styles)
    \cup ((BsDates \cup Midnights) \X {ISO_TEMPLATE} \X {"formal"})

\* the codes whose formatter calls into converter.py
converter_codes(date_obj) ==
    {"A", "a", "w", "G", "g"} \cup (IF date_obj.type = "BSDate" THEN {"j"} ELSE {})

\* whether the loop of format_bs_datetime, from the i-th code on, runs a
\* formatter that calls into converter.py
RECURSIVE format_calls_converter(_, _, _, _)
format_calls_converter(date_obj, result, style, i) ==
    IF i > Len(ALL_FORMAT_CODES) THEN FALSE
    ELSE LET code == <<"%", ALL_FORMAT_CODES[i]>>
         IN  IF ~str_contains(result, code)
             THEN format_calls_converter(date_obj, result, style, i + 1)
             ELSE LET later(value) ==
                          format_calls_converter(
                              date_obj,
                              IF value.kind = "ok" THEN str_replace(result, code, value.val)
                              ELSE result,
                              style, i + 1)
                  IN  \/ ALL_FORMAT_CODES[i] \in converter_codes(date_obj)
                      \/ later(code_value(ALL_FORMAT_CODES[i], date_obj, style))

\* the constructor of the receiver has loaded the calendar; a weekday or
\* day-of-year code goes on to the ordinal tables
CallStrftime ==
    /\ pc = "idle"
    /\ \E c \in FormatCalls:
          /\ Returns("strftime", c, strftime(c[1], c[2], c[3]))
          /\ IF str_contains(c[2], <<"%">>) /\ format_calls_converter(c[1], c[2], c[3], 1)
             THEN InitializesTables
             ELSE LoadsCalendar

\* the texts parsed with a template: every date as strftime renders it with
\* the ISO template, and texts of other shapes
ParseCalls ==
    {<<strftime(b, ISO_TEMPLATE, "formal").val.v, ISO_TEMPLATE>> : b \in BsDates} \cup
    {<<<<"1", "9", "0", "1", "-", "0", "1", "-", "3", "3">>, <<"%", "Y", "-", "%", "m", "-", "%", "d">>>>,
     <<<<"1", "9", "0", "1", "-", "1", "-", "1">>, <<"%", "Y", "-", "%", "m", "-", "%", "d">>>>,
     <<<<"1", "9", "0", "1", "/", "0", "1", "/", "0", "1">>, <<"%", "Y", "-", "%", "m", "-", "%", "d">>>>,
     <<<<"1", "9", "0", "1", "-", "0", "1", "-", "0", "1", " ">>, <<"%", "Y", "-", "%", "m", "-", "%", "d">>>>,
     <<<<"1", "9", "0", "2", "-", "0", "3", "-", "0", "4", " ", "1", "3", ":", "0", "5">>, <<"%", "Y", "-", "%", "m", "-", "%", "d", " ", "%", "H", ":", "%", "M">>>>,
     <<<<"1", "9", "0", "2", "-", "0", "3", "-", "0", "4", " ", "1", ":", "0", "5", " ", "P", "M">>, <<"%", "Y", "-", "%", "m", "-", "%", "d", " ", "%", "I", ":", "%", "M", " ", "%", "p">>>>,
     <<<<"1", "9", "0", "2", " ", "1", "9", "0", "2">>, <<"%", "Y", " ", "%", "Y">>>>,
     <<<<"0", "3", "-", "0", "4">>, <<"%", "m", "-", "%", "d">>>>,
     <<<<"%", "D", " ", "1", "9", "0", "1", "-", "0", "1", "-", "0", "1">>,
       <<"%", "%", "D", " ", "%", "Y", "-", "%", "m", "-", "%", "d">>>>,
     <<<<"%", " ", "1", "9", "0", "1", "-", "0", "1", "-", "0", "1">>,
       <<"%", "%", " ", "%", "Y", "-", "%", "m", "-", "%", "d">>>>}

\* BSDateTime(...) is reached, and the calendar loaded, once the text has
\* matched
CallParseBsDatetime ==
    /\ pc = "idle"
    /\ \E c \in ParseCalls:
          /\ Returns("parse_bs_datetime", c, parse_bs_datetime(c[1], c[2]))
          /\ LET matches(pattern) == pattern.kind = "ok" /\ re_match(pattern.val, c[1]).ok
             IN  IF matches(compile_format(c[2])) THEN LoadsCalendar ELSE UNCHANGED globals

NextFormat ==
    \/ CallStrftime
    \/ CallParseBsDatetime
    \/ Return

SpecFormat == Init /\ [][NextFormat]_vars

\* the codes of the time of day
TimeCodes == {"H", "I", "M", "S", "f", "p", "h", "i", "s", "P"}

\* C8: rendering a BSDate skips every time code of the template: the code
\* is in the output as it is in the template, nothing put in its place.
TimeCodesSkippedOnDate ==
    (pc = "returned" /\ call.op = "strftime" /\ call.args[1].type = "BSDate") =>
      /\ ret.kind = "ok"
      /\ \A c \in TimeCodes :
            /\ call.args[2] = <<"%", c>> => ret.val.v = <<"%", c>>
            /\ str_contains(call.args[2], <<"%", c>>) => str_contains(ret.val.v, <<"%", c>>)

\* C9: format_bs_datetime returns a str for every value, template and
\* style; a code that cannot be evaluated on the value (the day of the year
\* of a BSDateTime, which has no toordinal) stays in the output, and so
\* does a code that is not in the table.
FormattingNeverRaises ==
    (pc = "returned" /\ call.op = "strftime") =>
      /\ ret.kind = "ok"
      /\ ret.val.type = "str"
      /\ (call.args[1].type = "BSDateTime" /\ str_contains(call.args[2], <<"%", "j">>))
            => str_contains(ret.val.v, <<"%", "j">>)
      /\ call.args[2] \in {<<"%", "j">>, <<"%", "Q">>, <<"%">>} /\ call.args[1].type = "BSDateTime"
            => ret.val.v = call.args[2]

\* a BSDateTime has been rendered with a day-of-year code among others
FormattingNeverRaisesWitness ==
    /\ pc = "returned"
    /\ call.op = "strftime"
    /\ call.args[1].type = "BSDateTime"
    /\ call.args[2] = <<"%", "j", " ", "%", "H">>
    /\ ret.kind = "ok"
    /\ ret.val.v = <<"%", "j", " ", "1", "3">>

\* YYYY-MM-DD written out digit by digit
IsoText(b) ==
    <<ASCII_DIGITS[(b.year \div 1000) + 1], ASCII_DIGITS[((b.year \div 100) % 10) + 1],
      ASCII_DIGITS[((b.year \div 10) % 10) + 1], ASCII_DIGITS[(b.year % 10) + 1], "-",
      ASCII_DIGITS[(b.month \div 10) + 1], ASCII_DIGITS[(b.month % 10) + 1], "-",
      ASCII_DIGITS[(b.day \div 10) + 1], ASCII_DIGITS[(b.day % 10) + 1]>>

\* C10: with the ISO template, strftime writes a valid date d as
\* YYYY-MM-DD; parse_bs_datetime reads that text back as the midnight of d,
\* with d's year, month and day; and rendering that value gives the text
\* again.
IsoRoundTrip ==
    /\ (pc = "returned" /\ call.op = "strftime" /\ call.args[2] = ISO_TEMPLATE
            /\ ValidBs(<<call.args[1].year, call.args[1].month, call.args[1].day>>))
          => ret = Ok(PyStr(IsoText(call.args[1])))
    /\ (pc = "returned" /\ call.op = "parse_bs_datetime" /\ call.args[2] = ISO_TEMPLATE)
          => \A b \in BsDates :
                call.args[1] = IsoText(b) =>
                  /\ ret.kind = "ok"
                  /\ ret.val.type = "BSDateTime"
                  /\ <<ret.val.year, ret.val.month, ret.val.day>> = <<b.year, b.month, b.day>>
                  /\ ret.val \in Midnights

\* the text of the last day of the table has been parsed back
IsoRoundTripWitness ==
    /\ pc = "returned"
    /\ call.op = "parse_bs_datetime"
    /\ call.args = <<IsoText([year |-> LastBsDay[1], month |-> LastBsDay[2],
                              day |-> LastBsDay[3]]), ISO_TEMPLATE>>
    /\ ret.kind = "ok"
    /\ <<ret.val.year, ret.val.month, ret.val.day>> = LastBsDay

----------------------------------------------------------------------------
(* The operations that return a BSDate or a BSDateTime, each called by an  *)
(* idle client on arguments it has constructed.                            *)

\* the dates, valid and not, given to BSDateTime(...)
DateProbes ==
    {FirstBsDay, LastBsDay, <<BS_MIN_YEAR, 1, 33>>, <<BS_MIN_YEAR, 13, 1>>,
     <<BS_MAX_YEAR + 1, 1, 1>>}
HourInputs == {-1, 0, 23, 24}
MinuteInputs == {-1, 0, 59, 60}
SecondInputs == {-1, 0, 59, 60}
MicrosecondInputs == {-1, 0, 999999, 1000000}
TzInputs == {"None", "NPT"}

\* the Gregorian days around the two ends of the table
AdProbes == {date_fromordinal(ref_ad_ordinal + k) : k \in {-1, 0, TotalDays - 1, TotalDays}}

\* the BSDateTime receivers: the first and the last instant of the probe dates
DateTimes ==
    {BSDateTime(b.year, b.month, b.day, t[1], t[2], t[3], t[4], tz).val :
        b \in ProbeDates, t \in {<<0, 0, 0, 0>>, <<23, 59, 59, 999999>>},
        tz \in TzInputs \cup {"UTC"}}

\* timedeltas of a few days, of more than the table, and of more than
\* datetime can hold, with and without a part of a day
Timedeltas ==
    {timedelta(d, s, us) :
        d \in DeltaInputs \cup {-(ref_ad_ordinal + TotalDays), MAXORDINAL},
        s \in {0, 1, 86399}, us \in {0, 1, 999999}}

CallBSDate ==
    /\ pc = "idle"
    /\ \E y \in BsYearInputs, m \in MonthInputs, d \in DayInputs:
          Returns("BSDate", <<y, m, d>>, BSDate(y, m, d))
    /\ LoadsCalendar

CallBSDateTime ==
    /\ pc = "idle"
    /\ \E t \in DateProbes, hour \in HourInputs, minute \in MinuteInputs,
          second \in SecondInputs, microsecond \in MicrosecondInputs, tz \in TzInputs:
          Returns("BSDateTime", <<t[1], t[2], t[3], hour, minute, second, microsecond, tz>>,
                  BSDateTime(t[1], t[2], t[3], hour, minute, second, microsecond, tz))
    /\ LoadsCalendar

CallFromOrdinal ==
    /\ pc = "idle"
    /\ \E o \in OrdinalInputs:
          Returns("BSDate.fromordinal", <<o>>, BSDate_fromordinal(o))
    /\ InitializesTables

\* ad_to_bs reaches the ordinal engine only for a day from the anchor on
ConvertsFromAd(g) ==
    IF date_toordinal(g.year, g.month, g.day) >= ref_ad_ordinal THEN InitializesTables
    ELSE UNCHANGED globals

CallDateFromAd ==
    /\ pc = "idle"
    /\ \E y \in AdYearInputs, m \in MonthInputs, d \in AdDayInputs:
          /\ date_is_valid(y, m, d)
          /\ Returns("BSDate.from_ad", <<PyDate(<<y, m, d>>)>>,
                     BSDate_from_ad(PyDate(<<y, m, d>>)))
          /\ ConvertsFromAd(PyDate(<<y, m, d>>))

CallDateTimeFromAd ==
    /\ pc = "idle"
    /\ \E g \in AdProbes:
          /\ \E dt \in {PyDate(g)} \cup
                       {PyDateTime(g, t[1], t[2], t[3], t[4], tz) :
                           t \in ProbeTimes, tz \in TzInputs}:
                Returns("BSDateTime.from_ad", <<dt>>, BSDateTime_from_ad(dt))
          /\ ConvertsFromAd(PyDate(g))

CallDateAddTimedelta ==
    /\ pc = "idle"
    /\ \E d \in ProbeDates, delta \in Timedeltas:
          Returns("BSDate.__add__", <<d, delta>>, BSDate_add(d, delta))
    /\ InitializesTables

CallDateSubTimedelta ==
    /\ pc = "idle"
    /\ \E d \in ProbeDates, delta \in Timedeltas:
          Returns("BSDate.__sub__", <<d, delta>>, BSDate_sub(d, delta))
    /\ InitializesTables

CallDateReplace ==
    /\ pc = "idle"
    /\ \E d \in ProbeDates,
          year \in {None} \cup {Some(y) : y \in BsYearInputs},
          month \in {None} \cup {Some(m) : m \in MonthInputs},
          day \in {None} \cup {Some(n) : n \in DayInputs}:
          Returns("BSDate.replace", <<d, year, month, day>>, BSDate_replace(d, year, month, day))
    /\ LoadsCalendar

CallDateTimeReplace ==
    /\ pc = "idle"
    /\ \E dt \in DateTimes,
          year \in {None, Some(BS_MIN_YEAR), Some(BS_MAX_YEAR + 1)},
          month \in {None, Some(0), Some(12)},
          day \in {None, Some(1), Some(32)},
          hour \in {None, Some(0), Some(24)},
          minute \in {None, Some(60)},
          second \in {None, Some(-1)},
          microsecond \in {None, Some(1000000)}:
          Returns("BSDateTime.replace",
                  <<dt, year, month, day, hour, minute, second, microsecond>>,
                  BSDateTime_replace(dt, year, month, day, hour, minute, second, microsecond))
    /\ LoadsCalendar

CallToDate ==
    /\ pc = "idle"
    /\ \E dt \in DateTimes:
          Returns("BSDateTime.to_date", <<dt>>, BSDateTime_to_date(dt))
    /\ LoadsCalendar

CallFromBsDate ==
    /\ pc = "idle"
    /\ \E d \in BsDates:
          Returns("BSDateTime.from_bs_date", <<d>>, BSDateTime_from_bs_date(d))
    /\ LoadsCalendar

CallCombine ==
    /\ pc = "idle"
    /\ \E d \in ProbeDates, t \in ProbeTimes, tz \in TzInputs:
          Returns("BSDateTime.combine", <<d, PyTime(t[1], t[2], t[3], t[4], tz)>>,
                  BSDateTime_combine(d, PyTime(t[1], t[2], t[3], t[4], tz)))
    /\ LoadsCalendar

CallDateTimeAdd ==
    /\ pc = "idle"
    /\ \E dt \in DateTimes, delta \in Timedeltas:
          Returns("BSDateTime.__add__", <<dt, delta>>, BSDateTime_add(dt, delta))
    /\ InitializesTables

CallDateTimeSub ==
    /\ pc = "idle"
    /\ \E dt \in DateTimes, other \in Timedeltas \cup DateTimes:
          Returns("BSDateTime.__sub__", <<dt, other>>, BSDateTime_sub(dt, other))
    /\ InitializesTables

\* texts for strptime, each with the fields it spells: <<year, month, day,
\* hour, minute, second, microsecond>>
StrptimeCases ==
    {[text |-> <<"1", "9", "0", "1", "-", "0", "1", "-", "0", "1">>,
      fmt |-> <<"%", "Y", "-", "%", "m", "-", "%", "d">>, fields |-> <<1901, 1, 1, 0, 0, 0, 0>>],
     [text |-> <<"1", "9", "0", "4", "-", "1", "2", "-", "3", "1", " ", "2", "3", ":", "5", "9", ":", "5", "9", ".", "9", "9", "9", "9", "9", "9">>,
      fmt |-> <<"%", "Y", "-", "%", "m", "-", "%", "d", " ", "%", "H", ":", "%", "M", ":", "%", "S", ".", "%", "f">>, fields |-> <<1904, 12, 31, 23, 59, 59, 999999>>],
     [text |-> <<"1", "9", "0", "1", "-", "0", "1", "-", "3", "3">>,
      fmt |-> <<"%", "Y", "-", "%", "m", "-", "%", "d">>, fields |-> <<1901, 1, 33, 0, 0, 0, 0>>],
     [text |-> <<"1", "9", "0", "1", "-", "0", "1", "-", "0", "0">>,
      fmt |-> <<"%", "Y", "-", "%", "m", "-", "%", "d">>, fields |-> <<1901, 1, 0, 0, 0, 0, 0>>],
     [text |-> <<"1", "9", "0", "1", "-", "1", "3", "-", "0", "1">>,
      fmt |-> <<"%", "Y", "-", "%", "m", "-", "%", "d">>, fields |-> <<1901, 13, 1, 0, 0, 0, 0>>],
     [text |-> <<"1", "9", "0", "0", "-", "0", "1", "-", "0", "1">>,
      fmt |-> <<"%", "Y", "-", "%", "m", "-", "%", "d">>, fields |-> <<1900, 1, 1, 0, 0, 0, 0>>],
     [text |-> <<"1", "9", "0", "2", "-", "0", "3", "-", "0", "4", " ", "2", "4", ":", "0", "5">>,
      fmt |-> <<"%", "Y", "-", "%", "m", "-", "%", "d", " ", "%", "H", ":", "%", "M">>, fields |-> <<1902, 3, 4, 24, 5, 0, 0>>],
     [text |-> <<"1", "9", "0", "2", "-", "0", "3", "-", "0", "4", " ", "1", "3", ":", "6", "0">>,
      fmt |-> <<"%", "Y", "-", "%", "m", "-", "%", "d", " ", "%", "H", ":", "%", "M">>, fields |-> <<1902, 3, 4, 13, 60, 0, 0>>],
     [text |-> <<"1", "9", "0", "2", "-", "0", "3", "-", "0", "4", " ", "1", "3", ":", "0", "5", ":", "6", "0">>,
      fmt |-> <<"%", "Y", "-", "%", "m", "-", "%", "d", " ", "%", "H", ":", "%", "M", ":", "%", "S">>, fields |-> <<1902, 3, 4, 13, 5, 60, 0>>],
     [text |-> <<"1", "9", "0", "2", "-", "0", "3", "-", "0", "4", " ", "1", ":", "0", "5", " ", "P", "M">>,
      fmt |-> <<"%", "Y", "-", "%", "m", "-", "%", "d", " ", "%", "I", ":", "%", "M", " ", "%", "p">>, fields |-> <<1902, 3, 4, 13, 5, 0, 0>>],
     [text |-> <<"u0967", "u096F", "u0966", "u0968", "-", "u0966", "u0969", "-", "u0966", "u096A">>,
      fmt |-> <<"%", "K", "-", "%", "n", "-", "%", "D">>, fields |-> <<1902, 3, 4, 0, 0, 0, 0>>],
     [text |-> <<"u0967", "u096F", "u0966", "u0968", "-", "u0966", "u0969", "-", "u0969", "u0969">>,
      fmt |-> <<"%", "K", "-", "%", "n", "-", "%", "D">>, fields |-> <<1902, 3, 33, 0, 0, 0, 0>>],
     [text |-> <<"0", "2", "-", "0", "3", "-", "0", "4">>,
      fmt |-> <<"%", "y", "-", "%", "m", "-", "%", "d">>, fields |-> <<2002, 3, 4, 0, 0, 0, 0>>]}

CallStrptime ==
    /\ pc = "idle"
    /\ \E c \in StrptimeCases:
          /\ Returns("BSDateTime.strptime", <<c.text, c.fmt>>,
                     BSDateTime_strptime(c.text, c.fmt))
          /\ LET matches(pattern) == pattern.kind = "ok" /\ re_match(pattern.val, c.text).ok
             IN  IF matches(compile_format(c.fmt)) THEN LoadsCalendar ELSE UNCHANGED globals

\* texts for parse, each with the type and the fields it spells
ParseCases ==
    {[text |-> <<"1", "9", "0", "1", "-", "0", "1", "-", "0", "1">>,
      type |-> "BSDate", fields |-> <<1901, 1, 1, 0, 0, 0, 0>>],
     [text |-> <<" ", "u0967", "u096F", "u0966", "u096A", "/", "u0967", "u0968", "/", "u0969", "u0967", "\n">>,
      type |-> "BSDate", fields |-> <<1904, 12, 31, 0, 0, 0, 0>>],
     [text |-> <<"1", "9", "0", "2", "-", "0", "3", "-", "0", "4", " ", "1", "3", ":", "0", "5", ":", "0", "9">>,
      type |-> "BSDateTime", fields |-> <<1902, 3, 4, 13, 5, 9, 0>>],
     [text |-> <<"1", "9", "0", "2", "-", "0", "3", "-", "0", "4", " ", "1", ":", "0", "5", " ", "P", "M">>,
      type |-> "BSDateTime", fields |-> <<1902, 3, 4, 13, 5, 0, 0>>],
     [text |-> <<"J", "e", "s", "t", "h", "a", " ", "1", "5", ",", " ", "1", "9", "0", "2">>,
      type |-> "BSDate", fields |-> <<1902, 2, 15, 0, 0, 0, 0>>],
     [text |-> <<"1", "5", " ", "J", "e", "s", "t", "h", "a", " ", "1", "9", "0", "2">>,
      type |-> "BSDate", fields |-> <<1902, 2, 15, 0, 0, 0, 0>>],
     [text |-> <<"u092E", "u093E", "u0918", " ", "1", "5", ",", " ", "1", "9", "0", "2">>,
      type |-> "BSDate", fields |-> <<1902, 10, 15, 0, 0, 0, 0>>],
     [text |-> <<"1", "9", "0", "1", "-", "0", "1", "-", "3", "3">>,
      type |-> "BSDate", fields |-> <<1901, 1, 33, 0, 0, 0, 0>>],
     [text |-> <<"1", "9", "0", "1", "-", "1", "3", "-", "0", "1">>,
      type |-> "BSDate", fields |-> <<1901, 13, 1, 0, 0, 0, 0>>],
     [text |-> <<"1", "9", "0", "0", "-", "0", "1", "-", "0", "1">>,
      type |-> "BSDate", fields |-> <<1900, 1, 1, 0, 0, 0, 0>>],
     [text |-> <<"1", "9", "0", "2", "-", "0", "3", "-", "0", "4", " ", "2", "5", ":", "0", "5">>,
      type |-> "BSDateTime", fields |-> <<1902, 3, 4, 25, 5, 0, 0>>],
     [text |-> <<"1", "9", "0", "2", "-", "0", "3", "-", "0", "4", " ", "1", "3", ":", "6", "0">>,
      type |-> "BSDateTime", fields |-> <<1902, 3, 4, 13, 60, 0, 0>>],
     [text |-> <<"J", "e", "s", "t", "h", "a", " ", "3", "3", ",", " ", "1", "9", "0", "2">>,
      type |-> "BSDate", fields |-> <<1902, 2, 33, 0, 0, 0, 0>>],
     [text |-> <<"0", "1", "-", "0", "1", "-", "0", "1">>,
      type |-> "BSDate", fields |-> <<2001, 1, 1, 0, 0, 0, 0>>]}

\* whether parse comes to is_valid_bs_date: a pattern matches, with a
\* month name that is known
parse_validates(normalized) ==
    \E i \in 1..Len(DATE_PATTERNS) :
        LET named(match) ==
                /\ match.ok
                /\ DATE_PATTERNS[i].type = "named_month" =>
                        parse_month_name(match.groups["1"]) # None
                /\ DATE_PATTERNS[i].type = "day_month_year" =>
                        parse_month_name(match.groups["2"]) # None
        IN  named(re_match(DATE_PATTERNS[i].pattern, normalized))

CallParse ==
    /\ pc = "idle"
    /\ \E c \in ParseCases:
          /\ Returns("parse", <<c.text>>, parse(c.text))
          /\ IF parse_validates(from_devanagari(str_strip(c.text)))
             THEN LoadsCalendar
             ELSE UNCHANGED globals

NextValue ==
    \/ CallBSDate
    \/ CallBSDateTime
    \/ CallFromOrdinal
    \/ CallDateFromAd
    \/ CallDateTimeFromAd
    \/ CallDateAdd
    \/ CallDateSubDays
    \/ CallDateAddTimedelta
    \/ CallDateSubTimedelta
    \/ CallDateReplace
    \/ CallDateTimeReplace
    \/ CallToDate
    \/ CallFromBsDate
    \/ CallCombine
    \/ CallDateTimeAdd
    \/ CallDateTimeSub
    \/ CallStrptime
    \/ CallParse
    \/ Return

SpecValue == Init /\ [][NextValue]_vars

\* the fields of a value are those of a day of the table and of a time of day
TimeOk(hour, minute, second, microsecond) ==
    /\ hour \in 0..23
    /\ minute \in 0..59
    /\ second \in 0..59
    /\ microsecond \in 0..999999

ValidValue(v) ==
    /\ ValidBs(<<v.year, v.month, v.day>>)
    /\ v.type = "BSDateTime" => TimeOk(v.hour, v.minute, v.second, v.microsecond)

Pick(option, default) == IF option = None THEN default ELSE option[1]

\* the whole days a BSDate moves by
Days(x) == IF x.type = "int" THEN x.v ELSE x.days

\* the whole days between the date of dt and the date of dt + sign * delta
DayShift(dt, delta, sign) ==
    LET us == dt.microsecond + sign * delta.microseconds
        s == dt.hour * 3600 + dt.minute * 60 + dt.second + sign * delta.seconds
                + (us \div 1000000)
    IN  sign * delta.days + (s \div 86400)

\* whether day number n of the table, counted on in the Gregorian
\* calendar, is a day datetime can hold: 0001-01-01 .. 9999-12-31
InDatetimeRange(n) ==
    LET g == CivilDayNumber(REF_AD) + n - 1
    IN  CivilDayNumber(<<1, 1, 1>>) <= g /\ g <= CivilDayNumber(<<9999, 12, 31>>)

\* the cases of a table whose text is the one of the call
CasesOf(table) == {c \in table : c.text = call.args[1]}

\* the day number, in the table, of the result the call asks for
AskedDay ==
    LET a == call.args
    IN  CASE call.op = "BSDate.__add__" -> DayIndex(a[1]) + Days(a[2])
          [] call.op = "BSDate.__sub__" -> DayIndex(a[1]) - Days(a[2])
          [] call.op = "BSDateTime.__add__" -> DayIndex(a[1]) + DayShift(a[1], a[2], 1)
          [] call.op = "BSDateTime.__sub__" -> DayIndex(a[1]) + DayShift(a[1], a[2], -1)

\* whether the value the call asks for is a valid one
AskedIsValid ==
    LET a == call.args
    IN  CASE call.op = "BSDate" -> ValidBs(a)
          [] call.op = "BSDateTime" ->
                ValidBs(<<a[1], a[2], a[3]>>) /\ TimeOk(a[4], a[5], a[6], a[7])
          [] call.op = "BSDate.fromordinal" -> a[1] \in 1..TotalDays
          [] call.op \in {"BSDate.from_ad", "BSDateTime.from_ad"} ->
                DaysFromAnchor(<<a[1].year, a[1].month, a[1].day>>) \in 0..(TotalDays - 1)
          [] call.op \in {"BSDate.__add__", "BSDate.__sub__",
                          "BSDateTime.__add__", "BSDateTime.__sub__"} ->
                AskedDay \in 1..TotalDays
          [] call.op = "BSDate.replace" ->
                ValidBs(<<Pick(a[2], a[1].year), Pick(a[3], a[1].month), Pick(a[4], a[1].day)>>)
          [] call.op = "BSDateTime.replace" ->
                /\ ValidBs(<<Pick(a[2], a[1].year), Pick(a[3], a[1].month),
                             Pick(a[4], a[1].day)>>)
                /\ TimeOk(Pick(a[5], a[1].hour), Pick(a[6], a[1].minute),
                          Pick(a[7], a[1].second), Pick(a[8], a[1].microsecond))
          [] call.op \in {"BSDateTime.to_date", "BSDateTime.from_bs_date",
                          "BSDateTime.combine"} -> TRUE
          [] call.op = "BSDateTime.strptime" ->
                \A c \in CasesOf(StrptimeCases) :
                    /\ ValidBs(<<c.fields[1], c.fields[2], c.fields[3]>>)
                    /\ TimeOk(c.fields[4], c.fields[5], c.fields[6], c.fields[7])
          [] call.op = "parse" ->
                \A c \in CasesOf(ParseCases) :
                    /\ ValidBs(<<c.fields[1], c.fields[2], c.fields[3]>>)
                    /\ TimeOk(c.fields[4], c.fields[5], c.fields[6], c.fields[7])

\* a call whose result is a BSDate or a BSDateTime
AsksForValue ==
    /\ pc = "returned"
    /\ ~(call.op = "BSDate.__sub__" /\ call.args[2].type = "BSDate")
    /\ ~(call.op = "BSDateTime.__sub__" /\ call.args[2].type = "BSDateTime")

\* every BSDate or BSDateTime returned is valid, a call that asks for a
\* valid value returns it, and a call that asks for another raises `error`
ValuesAreValid(error) ==
    AsksForValue =>
      IF AskedIsValid
      THEN /\ ret.kind = "ok"
           /\ ret.val.type \in {"BSDate", "BSDateTime"}
           /\ ValidValue(ret.val)
           /\ call.op \in {"BSDateTime.strptime", "parse"} =>
                 \A c \in CasesOf(StrptimeCases \cup ParseCases) :
                     <<ret.val.year, ret.val.month, ret.val.day>>
                         = <<c.fields[1], c.fields[2], c.fields[3]>>
      ELSE ret.kind = error

\* C7 as stated: every BSDate and BSDateTime an operation returns has a
\* year of the table, a month in 1..12, a day in 1..days_in_month and a
\* time of day in range, and an operation whose result would not raises
\* ValueError.
NoInvalidValue == ValuesAreValid("ValueError")

\* C7, amended: as above, but BSDateTime + timedelta and BSDateTime -
\* timedelta raise OverflowError, not ValueError, when the Gregorian sum is
\* outside the years 1..9999 of datetime.
NoInvalidValueOrOverflow ==
    ValuesAreValid(IF call.op \in {"BSDateTime.__add__", "BSDateTime.__sub__"}
                       /\ ~InDatetimeRange(AskedDay)
                   THEN "OverflowError"
                   ELSE "ValueError")

\* the last instant of the table has been moved on by a microsecond, and
\* ValueError raised
NoInvalidValueOrOverflowWitness ==
    /\ pc = "returned"
    /\ call.op = "BSDateTime.__add__"
    /\ <<call.args[1].year, call.args[1].month, call.args[1].day>> = LastBsDay
    /\ call.args[1].hour = 23
    /\ call.args[2] = timedelta(0, 0, 1)
    /\ ret.kind = "ValueError"

----------------------------------------------------------------------------
(* The parse engine on the whole span of years.  parse and                 *)
(* parse_bs_datetime read the calendar only through is_valid_bs_date, so   *)
(* their client starts where _load_calendar_data() has read a table of all *)
(* the years BS_MIN_YEAR..2199 of the shipped file; the ordinal tables are *)
(* not built and no call here builds them.                                 *)

\* BS_MAX_YEAR of converter.py, the last year of the shipped table
SHIPPED_MAX_YEAR == 2199

\* data/bs_calendar.json over the shipped span, rows as in CalendarData
ShippedCalendar ==
    [y \in BS_MIN_YEAR..SHIPPED_MAX_YEAR |->
        MonthLengthRows[((y - BS_MIN_YEAR) % Len(MonthLengthRows)) + 1]]

InitParse ==
    /\ BS_CALENDAR = ShippedCalendar
    /\ CUMULATIVE_DAYS_BY_YEAR = <<>>
    /\ CUMULATIVE_DAYS_BY_MONTH = <<>>
    /\ MAX_ORDINAL = 0
    /\ ORDINAL_INITIALIZED = FALSE
    /\ pc = "idle"
    /\ call = NoCall
    /\ ret = NoRet
    /\ threads = <<>>
    /\ caches = <<>>

\* a day and a time of day of the shipped span
ValidShipped(f) ==
    /\ f[1] \in BS_MIN_YEAR..SHIPPED_MAX_YEAR
    /\ f[2] \in 1..12
    /\ f[3] \in 1..ShippedCalendar[f[1]][f[2]]
    /\ TimeOk(f[4], f[5], f[6], f[7])

\* the value with the fields f = <<year, month, day, hour, minute, second,
\* microsecond>>
ValueOf(type, f) ==
    IF type = "BSDate"
    THEN [type |-> "BSDate", year |-> f[1], month |-> f[2], day |-> f[3]]
    ELSE [type |-> "BSDateTime", year |-> f[1], month |-> f[2], day |-> f[3],
          hour |-> f[4], minute |-> f[5], second |-> f[6], microsecond |-> f[7],
          tzinfo |-> "None"]

\* a text case: what the text spells, and the outcome that spelling asks
\* for (type "none": the text has none of the shapes)
Spelled(c) ==
    IF c.type # "none" /\ ValidShipped(c.fields) THEN Ok(ValueOf(c.type, c.fields))
    ELSE Raise("ValueError")

\* a number in decimal digits, at least `width` of them
Num(n, width) == format_d(n, width)
\* "Y-M-D" with the separator sep and month and day of the width w
DateText(y, m, d, sep, w) == Num(y, 4) \o <<sep>> \o Num(m, w) \o <<sep>> \o Num(d, w)

\* "H:MM", with ":SS" when second is not -1
ClockText(h, w, mi, sec) ==
    Num(h, w) \o <<":">> \o Num(mi, 2)
        \o (IF sec = -1 THEN <<>> ELSE <<":">> \o Num(sec, 2))

\* "Name D, Y" and "D Name Y"
NamedText(name, d, y, comma) ==
    name \o <<" ">> \o Num(d, 1) \o (IF comma THEN <<",", " ">> ELSE <<" ">>) \o Num(y, 4)
DayFirstText(name, d, y) == Num(d, 1) \o <<" ">> \o name \o <<" ">> \o Num(y, 4)

\* texts of the shapes of _DATE_PATTERNS, legal and not, each with the type
\* and the fields it spells
DateShapeCases ==
    {[text |-> DateText(y, m, d, sep, w), type |-> "BSDate",
      fields |-> <<y, m, d, 0, 0, 0, 0>>] :
        y \in {1900, 1901, 2080, 2199, 2200}, m \in {0, 4, 12, 13},
        d \in {0, 1, 32, 33}, sep \in {"-", "/"}, w \in {1, 2}}

DateTimeShapeCases ==
    {[text |-> DateText(2080, c[1], c[2], "-", 2) \o <<" ">> \o ClockText(h, 2, mi, sec),
      type |-> "BSDateTime",
      fields |-> <<2080, c[1], c[2], h, mi, IF sec = -1 THEN 0 ELSE sec, 0>>] :
        c \in {<<4, 1>>, <<13, 1>>, <<4, 33>>}, h \in {0, 23, 24}, mi \in {0, 59, 60},
        sec \in {-1, 0, 59, 60}}

AmPmShapeCases ==
    {[text |-> DateText(2080, 4, d, "/", 1) \o <<" ">> \o ClockText(c[1], 1, mi, -1)
                 \o <<" ">> \o c[2],
      type |-> "BSDateTime", fields |-> <<2080, 4, d, c[3], mi, 0, 0>>] :
        c \in {<<1, <<"A", "M">>, 1>>, <<1, <<"P", "M">>, 13>>,
               <<12, <<"A", "M">>, 0>>, <<12, <<"P", "M">>, 12>>},
        d \in {1, 33}, mi \in {5, 60}}

\* month names as written, and a word that names no month
NameCases ==
    {<<MONTHS_ENGLISH[2], 2>>, <<SubSeq(MONTHS_ENGLISH[12], 1, 3), 12>>,
     <<str_upper(MONTHS_ENGLISH[5]), 5>>, <<MONTHS_NEPALI[10], 10>>,
     <<MONTHS_NEPALI_SANSKRIT[1], 1>>, <<<<"F", "o", "o">>, 0>>}

NamedShapeCases ==
    {[text |-> NamedText(n[1], d, y, comma), type |-> "BSDate",
      fields |-> <<y, n[2], d, 0, 0, 0, 0>>] :
        n \in NameCases, d \in {1, 15, 33}, y \in {1900, 2080}, comma \in BOOLEAN}
    \cup
    {[text |-> DayFirstText(n[1], d, y), type |-> "BSDate",
      fields |-> <<y, n[2], d, 0, 0, 0, 0>>] :
        n \in {c \in NameCases : c[1][1] \in (Range(UPPERCASE) \cup Range(LOWERCASE))},
        d \in {1, 15, 33}, y \in {1900, 2080}}

\* texts of no shape
ShapelessCases ==
    {[text |-> t, type |-> "none", fields |-> <<0, 0, 0, 0, 0, 0, 0>>] :
        t \in {<<>>, <<"h", "e", "l", "l", "o">>, Num(2080, 4) \o <<"-">> \o Num(1, 2),
               DateText(2080, 1, 1, "-", 2) \o <<"T">> \o ClockText(10, 2, 0, -1),
               DateText(2080, 1, 1, ".", 2), DateText(2080, 1, 1, "-", 3),
               DateText(2080, 1, 1, "-", 2) \o <<" ">>  \o Num(10, 2),
               DateText(2080, 1, 1, "-", 2) \o <<"x">>,
               <<"x">> \o DateText(2080, 1, 1, "-", 2)}}

ShapeCases ==
    DateShapeCases \cup DateTimeShapeCases \cup AmPmShapeCases \cup NamedShapeCases
        \cup ShapelessCases

\* the same text in other whitespace and the other digit script
Variants(t) ==
    {<<" ">> \o t, t \o <<"\n">>, <<"\t", " ">> \o t \o <<" ", "\r">>,
     to_devanagari(t), <<" ">> \o to_devanagari(t) \o <<" ">>,
     to_devanagari(SubSeq(t, 1, Len(t) \div 2)) \o SubSeq(t, Len(t) \div 2 + 1, Len(t))}

\* the texts whose variants are parsed
VariantBases ==
    {c \in DateShapeCases \cup NamedShapeCases : c.fields[1] = 2080}
        \cup {c \in DateTimeShapeCases : c.fields[6] = 59}
        \cup AmPmShapeCases \cup ShapelessCases

\* a format code, and the template "%<year>-%<month>-%<day>"
Code(letter) == <<"%", letter>>
DateFmt(year, month, day) ==
    Code(year) \o <<"-">> \o Code(month) \o <<"-">> \o Code(day)

\* two-digit years: texts of the short-year shape, and texts for the
\* templates with %y and with %k, each spelling the year 2000 + yy
ShortYearCases ==
    {[text |-> Num(yy, 2) \o <<"-">> \o Num(c[1], 2) \o <<"-">> \o Num(c[2], 2),
      type |-> "BSDate", fields |-> <<2000 + yy, c[1], c[2], 0, 0, 0, 0>>] :
        yy \in 0..99, c \in {<<1, 15>>}}
    \cup
    {[text |-> Num(yy, 2) \o <<"/">> \o Num(c[1], 1) \o <<"/">> \o Num(c[2], 1),
      type |-> "BSDate", fields |-> <<2000 + yy, c[1], c[2], 0, 0, 0, 0>>] :
        yy \in {0, 49, 50, 79, 99}, c \in {<<12, 1>>, <<13, 1>>, <<1, 33>>}}

ShortYearTemplateCases ==
    {[text |-> Num(yy, 2) \o <<"-">> \o Num(c[1], 2) \o <<"-">> \o Num(c[2], 2),
      fmt |-> DateFmt("y", "m", "d"),
      type |-> "BSDateTime", fields |-> <<2000 + yy, c[1], c[2], 0, 0, 0, 0>>] :
        yy \in 0..99, c \in {<<1, 15>>}}
    \cup
    {[text |-> to_devanagari(Num(yy, 2)) \o <<"-">> \o Num(c[1], 2) \o <<"-">> \o Num(c[2], 2),
      fmt |-> DateFmt("k", "m", "d"),
      type |-> "BSDateTime", fields |-> <<2000 + yy, c[1], c[2], 0, 0, 0, 0>>] :
        yy \in 0..99, c \in {<<1, 15>>}}
    \cup
    {[text |-> Num(yy, 2) \o <<"-">> \o Num(c[1], 2) \o <<"-">> \o Num(c[2], 2),
      fmt |-> DateFmt("y", "m", "d"),
      type |-> "BSDateTime", fields |-> <<2000 + yy, c[1], c[2], 0, 0, 0, 0>>] :
        yy \in {0, 49, 50, 79, 99}, c \in {<<12, 1>>, <<13, 1>>, <<1, 33>>}}

\* the template "%Y-%m-%d " followed by the codes and characters of rest
StampFmt(rest) == DateFmt("Y", "m", "d") \o <<" ">> \o rest

\* the words of AM and PM, and the hour of the day of the h-th hour of a half
AmPmWords == {<<"A", "M">>, <<"P", "M">>, <<"a", "m">>, <<"p", "m">>}
HourOfDay(h, word) == (h % 12) + (IF str_upper(word) = <<"P", "M">> THEN 12 ELSE 0)

\* twelve-hour clock texts, for parse and for the template with %I and %p
TwelveHourCases ==
    {[text |-> DateText(2080, 1, 15, "-", 2) \o <<" ">> \o ClockText(h, c[1], c[2], -1)
                 \o c[3] \o word,
      type |-> "BSDateTime",
      fields |-> <<2080, 1, 15, HourOfDay(h, word), c[2], 0, 0>>] :
        h \in 1..12, word \in AmPmWords, c \in {<<2, 0, <<" ">> >>, <<1, 59, <<>> >>}}

TwelveHourTemplateCases ==
    {[text |-> DateText(2080, 1, 15, "-", 2) \o <<" ">> \o ClockText(h, c[1], c[2], -1)
                 \o <<" ">> \o word,
      fmt |-> StampFmt(Code("I") \o <<":">> \o Code("M") \o <<" ">> \o Code("p")),
      type |-> "BSDateTime",
      fields |-> <<2080, 1, 15, HourOfDay(h, word), c[2], 0, 0>>] :
        h \in 1..12, word \in AmPmWords, c \in {<<2, 0>>, <<1, 59>>}}

\* hours of 0..24 with a marker, in the AM/PM shape of parse, which is also
\* the text of the templates '%Y-%m-%d %I:%M %p' and '%Y-%m-%d %H:%M %p'
MarkedHours == {0, 1, 11, 12, 13, 23, 24}
MarkedHourCases ==
    {[text |-> DateText(2080, 1, 15, "-", 2) \o <<" ">> \o ClockText(h, 1, 30, -1)
                 \o <<" ">> \o word,
      fmt |-> StampFmt(Code(code) \o <<":">> \o Code("M") \o <<" ">> \o Code("p")),
      hour |-> h, word |-> str_upper(word)] :
        h \in MarkedHours, word \in AmPmWords, code \in {"I", "H"}}

\* fractions of a second as written after the point, 1 to 6 digits, and
\* the microseconds of the decimal fraction
Fractions ==
    {<<"5">>, <<"0", "5">>, <<"1", "2", "3">>, <<"5", "0", "0", "0">>,
     <<"1", "2", "3", "4", "5">>, <<"0", "0", "0", "0", "0", "1">>,
     <<"9", "9", "9", "9", "9", "9">>, <<"0">>, <<"1", "2", "0">>}
Micros(frac) == int_of(frac) * <<100000, 10000, 1000, 100, 10, 1>>[Len(frac)]

FractionCases ==
    {[text |-> DateText(2080, 1, 15, "-", 2) \o <<" ">> \o ClockText(h, 2, 30, sec)
                 \o <<".">> \o frac,
      frac |-> frac, type |-> "BSDateTime",
      fields |-> <<2080, 1, 15, h, 30, sec, Micros(frac)>>] :
        frac \in Fractions, h \in {0, 23}, sec \in {0, 59}}

FractionTemplateCases ==
    {[text |-> c.text,
      fmt |-> StampFmt(Code("H") \o <<":">> \o Code("M") \o <<":">> \o Code("S")
                         \o <<".">> \o Code("f")),
      frac |-> c.frac, type |-> c.type, fields |-> c.fields] : c \in FractionCases}

\* templates without a code for the year, the month or the day; `twice`
\* says that the template names a code twice
PartialTemplates ==
    {[fmt |-> Code("H") \o <<":">> \o Code("M"), twice |-> FALSE],
     [fmt |-> Code("Y") \o <<"-">> \o Code("m"), twice |-> FALSE],
     [fmt |-> Code("m") \o <<"-">> \o Code("d"), twice |-> FALSE],
     [fmt |-> Code("Y") \o <<"-">> \o Code("d"), twice |-> FALSE],
     [fmt |-> Code("Y"), twice |-> FALSE],
     [fmt |-> Code("K") \o <<"-">> \o Code("n"), twice |-> FALSE],
     [fmt |-> Code("y") \o <<"-">> \o Code("m") \o <<" ">> \o Code("I") \o <<" ">> \o Code("p"),
      twice |-> FALSE],
     [fmt |-> <<>>, twice |-> FALSE],
     [fmt |-> <<"x">>, twice |-> FALSE],
     [fmt |-> Code("H") \o <<":">> \o Code("H"), twice |-> TRUE],
     [fmt |-> Code("Y") \o <<"-">> \o Code("m") \o <<"-">> \o Code("m"), twice |-> TRUE]}

PartialTexts ==
    {ClockText(14, 2, 30, -1), ClockText(14, 2, 14, -1), ClockText(25, 2, 30, -1),
     Num(2080, 4) \o <<"-">> \o Num(1, 2), Num(1, 2) \o <<"-">> \o Num(15, 2),
     Num(2080, 4) \o <<"-">> \o Num(15, 2), Num(2080, 4),
     to_devanagari(Num(2080, 4) \o <<"-">> \o Num(1, 2)),
     Num(80, 2) \o <<"-">> \o Num(1, 2) \o <<" ">> \o Num(2, 1) \o <<" ", "P", "M">>,
     DateText(2080, 1, 1, "-", 2), <<>>, <<"x">>}

PartialTemplateCases ==
    {[text |-> t, fmt |-> p.fmt, twice |-> p.twice] : t \in PartialTexts, p \in PartialTemplates}

\* a time stamp of seven parts, "1-2-3 4:5:6.7"
Stamp(parts) ==
    parts[1] \o <<"-">> \o parts[2] \o <<"-">> \o parts[3] \o <<" ">> \o parts[4]
        \o <<":">> \o parts[5] \o <<":">> \o parts[6] \o <<".">> \o parts[7]
StampCodes == <<"Y", "m", "d", "H", "M", "S", "f">>
StampFields == <<2080, 1, 15, 10, 20, 30, 123456>>
StampWidths == <<4, 2, 2, 2, 2, 2, 6>>

\* the codes that read digits, each with the part of the stamp it reads and
\* the alphabet of its pattern
DigitCodes ==
    {[code |-> "Y", part |-> 1, dev |-> FALSE], [code |-> "y", part |-> 1, dev |-> FALSE],
     [code |-> "m", part |-> 2, dev |-> FALSE], [code |-> "d", part |-> 3, dev |-> FALSE],
     [code |-> "H", part |-> 4, dev |-> FALSE], [code |-> "I", part |-> 4, dev |-> FALSE],
     [code |-> "M", part |-> 5, dev |-> FALSE], [code |-> "S", part |-> 6, dev |-> FALSE],
     [code |-> "f", part |-> 7, dev |-> FALSE],
     [code |-> "K", part |-> 1, dev |-> TRUE], [code |-> "k", part |-> 1, dev |-> TRUE],
     [code |-> "n", part |-> 2, dev |-> TRUE], [code |-> "D", part |-> 3, dev |-> TRUE],
     [code |-> "h", part |-> 4, dev |-> TRUE], [code |-> "i", part |-> 5, dev |-> TRUE],
     [code |-> "s", part |-> 6, dev |-> TRUE]}

\* the stamp read with one code in the place of the usual one, the part it
\* reads written in its own alphabet (own) or in the other one
AlphabetCases ==
    {[text |-> Stamp([i \in 1..7 |->
                  LET digits == IF i = 1 /\ k.code \in {"y", "k"}
                                THEN Num(StampFields[1] % 100, 2)
                                ELSE Num(StampFields[i], StampWidths[i])
                  IN  IF i = k.part /\ (k.dev = own) THEN to_devanagari(digits) ELSE digits]),
      fmt |-> Stamp([i \in 1..7 |-> Code(IF i = k.part THEN k.code ELSE StampCodes[i])]),
      code |-> k.code, dev |-> k.dev, own |-> own,
      type |-> "BSDateTime", fields |-> StampFields] :
        k \in DigitCodes, own \in BOOLEAN}

\* the template with the twelve-hour code and the period word, the values
\* of the hours of a day, and the text strftime writes for each
PeriodFmt == StampFmt(Code("I") \o <<":">> \o Code("M") \o <<" ">> \o Code("P"))
PeriodValue(h) == ValueOf("BSDateTime", <<2080, 1, 15, h, 30, 0, 0>>)
PeriodText(h) == strftime(PeriodValue(h), PeriodFmt, "formal").val.v

\* the month names strftime writes: the code and the style of each of the
\* four vocabularies, and the text "<name> 15, 2080" written for a month
NameKinds == {<<"B", "formal">>, <<"b", "formal">>, <<"N", "colloquial">>, <<"N", "sanskrit">>}
NameFmt(code) == Code(code) \o <<" ">> \o Code("d") \o <<",", " ">> \o Code("Y")
MonthNameText(m, kind) ==
    strftime(ValueOf("BSDate", <<2080, m, 15, 0, 0, 0, 0>>), NameFmt(kind[1]), kind[2]).val.v

\* each variant with what the text it was made from spells
VariantCases ==
    UNION {{[text |-> v, base |-> c.text, type |-> c.type, fields |-> c.fields] :
                v \in Variants(c.text)} : c \in VariantBases}

\* the texts given to parse
ParseTexts ==
    {c.text : c \in ShapeCases \cup VariantCases \cup ShortYearCases \cup TwelveHourCases
                    \cup FractionCases \cup MarkedHourCases}
        \cup {MonthNameText(m, kind) : m \in 1..12, kind \in NameKinds}

\* the texts and templates given to parse_bs_datetime
TemplateCalls ==
    {<<c.text, c.fmt>> : c \in ShortYearTemplateCases \cup TwelveHourTemplateCases
                              \cup FractionTemplateCases
                              \cup PartialTemplateCases \cup AlphabetCases
                              \cup MarkedHourCases}
        \cup {<<PeriodText(h), PeriodFmt>> : h \in 0..23}

\* parse(date_string); is_valid_bs_date reads the calendar that is loaded
CallParseText ==
    /\ pc = "idle"
    /\ \E t \in ParseTexts:
          /\ Returns("parse", <<t>>, parse(t))
          /\ IF parse_validates(from_devanagari(str_strip(t)))
             THEN LoadsCalendar
             ELSE UNCHANGED globals

\* parse_bs_datetime(date_string, fmt); BSDateTime reads the calendar when
\* the text matches the template
CallParseTemplate ==
    /\ pc = "idle"
    /\ \E c \in TemplateCalls:
          /\ Returns("parse_bs_datetime", c, parse_bs_datetime(c[1], c[2]))
          /\ LET matches(pattern) == pattern.kind = "ok" /\ re_match(pattern.val, c[1]).ok
             IN  IF matches(compile_format(c[2])) THEN LoadsCalendar ELSE UNCHANGED globals

NextParse ==
    \/ CallParseText
    \/ CallParseTemplate
    \/ Return

SpecParse == InitParse /\ [][NextParse]_vars

\* the case of a family that spells the text of the call that has returned
Parsed(c) == pc = "returned" /\ call.op = "parse" /\ call.args = <<c.text>>

Templated(c) ==
    pc = "returned" /\ call.op = "parse_bs_datetime" /\ call.args = <<c.text, c.fmt>>

\* C11: parse returns the value of the shape its text has when that shape
\* spells a legal date and time, and raises ValueError when the text has no
\* shape or the shape it has spells no legal value (a month or a day out of
\* the calendar, a time out of the day, a word that names no month).
ParseReturnsFirstLegalShape ==
    \A c \in ShapeCases : Parsed(c) => ret = Spelled(c)

\* a text of the date shape with a legal date has been parsed in one call,
\* and one that matched its shape and was skipped in another
ParseReturnsFirstLegalShapeWitness ==
    \E c \in DateShapeCases : Parsed(c) /\ ret.kind = "ok" /\ c.fields[1] = 2199
ParseSkipsIllegalShapeWitness ==
    \E c \in DateTimeShapeCases : Parsed(c) /\ ret = Raise("ValueError") /\ c.fields[4] = 24

\* C12: a text with whitespace put around it, with its digits written in
\* Devanagari, or both, is parsed to the value of the text itself, and is
\* rejected with ValueError when the text itself is.
ParseIgnoresPaddingAndScript ==
    \A c \in VariantCases : Parsed(c) => ret = Spelled(c)

\* a padded text in Devanagari digits has been parsed to a value
ParseIgnoresPaddingAndScriptWitness ==
    \E c \in VariantCases :
        /\ Parsed(c)
        /\ c.text # <<>> /\ Head(c.text) = " "
        /\ \E i \in 1..Len(c.text) : c.text[i] \in Range(DEVANAGARI_DIGITS)
        /\ ret.kind = "ok"

\* C13: a two-digit year YY is read as the year 2000 + YY, for every YY of
\* 00..99, by parse_bs_datetime with %y or %k and by parse on a text of the
\* short-year shape.
ShortYearReadAs2000s ==
    /\ \A c \in ShortYearTemplateCases : Templated(c) => ret = Spelled(c)
    /\ \A c \in ShortYearCases : Parsed(c) => ret = Spelled(c)

\* what the code does: the templates read 2000 + YY, and parse reads
\* 1900 + YY from 50 on
TemplateShortYearReadAs2000s ==
    \A c \in ShortYearTemplateCases : Templated(c) => ret = Spelled(c)
ParseShortYearPivotsAt50 ==
    \A c \in ShortYearCases :
        Parsed(c) =>
            ret = Spelled([c EXCEPT !.fields[1] = IF @ < 2050 THEN @ ELSE @ - 100])

\* C14: an hour h of 1..12 with AM or PM, in either case of the letters, is
\* read as the hour of the day: h with AM (0 for 12 AM), h + 12 with PM (12
\* for 12 PM); by parse on the AM/PM shape and by parse_bs_datetime with %I
\* and %p.
TwelveHourClockRead ==
    /\ \A c \in TwelveHourCases : Parsed(c) => ret = Spelled(c)
    /\ \A c \in TwelveHourTemplateCases : Templated(c) => ret = Spelled(c)

\* 12 pm has been read as noon by the template
TwelveHourClockReadWitness ==
    \E c \in TwelveHourTemplateCases :
        /\ Templated(c)
        /\ c.text[12] = "1" /\ c.text[13] = "2" /\ c.text[Len(c.text)] = "m"
        /\ ret.kind = "ok" /\ ret.val.hour = 12

\* C15: a fraction of a second written in 1 to 6 digits is read as a decimal
\* fraction, the digits padded with zeros on the right to six ('5' is
\* 500000 microseconds, '123' is 123000), by parse_bs_datetime with %f and
\* by parse on 'HH:MM:SS.f'.
FractionReadAsDecimal ==
    /\ \A c \in FractionTemplateCases : Templated(c) => ret = Spelled(c)
    /\ \A c \in FractionCases : Parsed(c) => ret = Spelled(c)

\* what the code does: %f is padded, and parse reads the digits after the
\* point as a number of microseconds
TemplateFractionReadAsDecimal ==
    \A c \in FractionTemplateCases : Templated(c) => ret = Spelled(c)
ParseFractionReadAsInteger ==
    \A c \in FractionCases :
        Parsed(c) => ret = Spelled([c EXCEPT !.fields[7] = int_of(c.frac)])

CodesReadOwnAlphabetOnly ==
    \A c \in AlphabetCases :
        Templated(c) => ret = IF c.own THEN Spelled(c) ELSE Raise("ValueError")

\* what the code does: the Devanagari codes refuse ASCII digits, and the
\* ASCII codes read both alphabets
DevanagariCodesRefuseAscii ==
    \A c \in AlphabetCases :
        (Templated(c) /\ c.dev) => ret = IF c.own THEN Spelled(c) ELSE Raise("ValueError")
AsciiCodesReadBothAlphabets ==
    \A c \in AlphabetCases : (Templated(c) /\ ~c.dev) => ret = Spelled(c)

\* the call that has returned read, with %I and %P, the text strftime
\* writes for the hour h
ReadPeriodText(h) ==
    /\ pc = "returned" /\ call.op = "parse_bs_datetime"
    /\ call.args[2] = PeriodFmt
    /\ call.args[1] = PeriodText(h)

\* C18: with %I and %P in the template the period word turns the
\* twelve-hour value into the hour of the day: the text that
\* strftime('%Y-%m-%d %I:%M %P') writes for a value is read back, with the
\* same template, to the hour of the value.
PeriodWordGivesHourOfDay ==
    \A h \in 0..23 : ReadPeriodText(h) => (ret.kind = "ok" /\ ret.val.hour = h)

\* what the code does: the hour is the twelve-hour value, whatever the word
PeriodWordIgnored ==
    \A h \in 0..23 :
        ReadPeriodText(h) =>
            ret = Ok([PeriodValue(h) EXCEPT !.hour = IF h % 12 = 0 THEN 12 ELSE h % 12])

\* the call that has returned parsed the text written for the month m with
\* a name of the kind
ReadMonthName(m, kind) ==
    /\ pc = "returned" /\ call.op = "parse"
    /\ Len(call.args[1]) > 9
    /\ SubSeq(call.args[1], Len(call.args[1]) - 8, Len(call.args[1]))
            = <<" ", "1", "5", ",", " ", "2", "0", "8", "0">>
    /\ call.args[1] = MonthNameText(m, kind)

\* C19: every month name that strftime writes (%B, %b, and %N in the
\* colloquial and in the traditional style) is parsed back to its month:
\* parse("<name> 15, 2080") is the BSDate of the 15th of that month of 2080.
MonthNamesParseBack ==
    \A m \in 1..12 : \A kind \in NameKinds :
        ReadMonthName(m, kind)
            => ret = Ok(ValueOf("BSDate", <<2080, m, 15, 0, 0, 0, 0>>))

\* what the code does: the names parse back but the abbreviation %b writes
\* for the sixth month, which names no month
MonthNamesParseBackButOne ==
    \A m \in 1..12 : \A kind \in NameKinds :
        ReadMonthName(m, kind)
            => ret = IF m = 6 /\ kind[1] = "b" THEN Raise("ValueError")
                     ELSE Ok(ValueOf("BSDate", <<2080, m, 15, 0, 0, 0, 0>>))

----------------------------------------------------------------------------
(* Threads.  converter.py takes no lock: each thread that calls an ordinal *)
(* function runs _initialize_calendar_lookup_tables() on the module        *)
(* globals, and the interpreter may switch threads between any two of its  *)
(* statements.  A thread's position is the statement it executes next.     *)

Threads == {"t1", "t2"}

\* the ordinal calls the threads make
ThreadCalls ==
    {[op |-> "bs_date_to_ordinal", args |-> <<BS_MAX_YEAR, 1, 1>>],
     [op |-> "ordinal_to_bs_date", args |-> <<TotalDays>>],
     [op |-> "get_max_ordinal", args |-> <<>>]}

IdleThread ==
    [pc |-> "idle", op |-> "none", args |-> <<>>, year |-> 0, cumulative_days |-> 0,
     ret |-> NoRet]

InitThreads ==
    /\ BS_CALENDAR = <<>>
    /\ CUMULATIVE_DAYS_BY_YEAR = <<>>
    /\ CUMULATIVE_DAYS_BY_MONTH = <<>>
    /\ MAX_ORDINAL = 0
    /\ ORDINAL_INITIALIZED = FALSE
    /\ pc = "idle"
    /\ call = NoCall
    /\ ret = NoRet
    /\ threads = [t \in Threads |-> IdleThread]
    /\ caches = <<>>

\* the thread t goes on to the statement at `to`
Goes(t, to) == threads' = [threads EXCEPT ![t].pc = to]

\* an ordinal function is called; its first statement is the call of
\* _initialize_calendar_lookup_tables()
ThreadCall(t) ==
    /\ threads[t].pc = "idle"
    /\ \E c \in ThreadCalls :
          threads' = [threads EXCEPT ![t] = [IdleThread EXCEPT !.pc = "test", !.op = c.op,
                                                               !.args = c.args]]
    /\ UNCHANGED <<globals, pc, call, ret, caches>>

\* if _ORDINAL_INITIALIZED: return
ThreadTest(t) ==
    /\ threads[t].pc = "test"
    /\ Goes(t, IF ORDINAL_INITIALIZED THEN "compute" ELSE "load")
    /\ UNCHANGED <<globals, pc, call, ret, caches>>

\* calendar = _load_calendar_data(); cumulative_days = 0; the loop begins
ThreadLoad(t) ==
    /\ threads[t].pc = "load"
    /\ BS_CALENDAR' = Calendar
    /\ threads' = [threads EXCEPT ![t].pc = "append", ![t].year = BS_MIN_YEAR,
                                  ![t].cumulative_days = 0]
    /\ UNCHANGED <<tables, pc, call, ret, caches>>

\* the head of the loop, and _CUMULATIVE_DAYS_BY_YEAR.append(cumulative_days)
ThreadAppend(t) ==
    /\ threads[t].pc = "append"
    /\ IF threads[t].year > BS_MAX_YEAR \/ threads[t].year \notin DOMAIN Calendar
       THEN /\ Goes(t, "max")
            /\ UNCHANGED CUMULATIVE_DAYS_BY_YEAR
       ELSE /\ CUMULATIVE_DAYS_BY_YEAR' =
                    Append(CUMULATIVE_DAYS_BY_YEAR, threads[t].cumulative_days)
            /\ Goes(t, "months")
    /\ UNCHANGED <<BS_CALENDAR, CUMULATIVE_DAYS_BY_MONTH, MAX_ORDINAL, ORDINAL_INITIALIZED,
                   pc, call, ret, caches>>

\* _CUMULATIVE_DAYS_BY_MONTH[year] = month_cumulative;
\* cumulative_days += sum(calendar[year_str]); the next year
ThreadMonths(t) ==
    /\ threads[t].pc = "months"
    /\ CUMULATIVE_DAYS_BY_MONTH' =
            (threads[t].year :> month_cumulative(Calendar[threads[t].year], 1, <<0>>))
                @@ CUMULATIVE_DAYS_BY_MONTH
    /\ threads' = [threads EXCEPT
            ![t].pc = "append",
            ![t].cumulative_days = @ + SumSeq(Calendar[threads[t].year]),
            ![t].year = @ + 1]
    /\ UNCHANGED <<BS_CALENDAR, CUMULATIVE_DAYS_BY_YEAR, MAX_ORDINAL, ORDINAL_INITIALIZED,
                   pc, call, ret, caches>>

\* _MAX_ORDINAL = cumulative_days
ThreadMax(t) ==
    /\ threads[t].pc = "max"
    /\ MAX_ORDINAL' = threads[t].cumulative_days
    /\ Goes(t, "flag")
    /\ UNCHANGED <<BS_CALENDAR, CUMULATIVE_DAYS_BY_YEAR, CUMULATIVE_DAYS_BY_MONTH,
                   ORDINAL_INITIALIZED, pc, call, ret, caches>>

\* _ORDINAL_INITIALIZED = True, and the return to the ordinal function
ThreadFlag(t) ==
    /\ threads[t].pc = "flag"
    /\ ORDINAL_INITIALIZED' = TRUE
    /\ Goes(t, "compute")
    /\ UNCHANGED <<BS_CALENDAR, CUMULATIVE_DAYS_BY_YEAR, CUMULATIVE_DAYS_BY_MONTH,
                   MAX_ORDINAL, pc, call, ret, caches>>

\* the rest of the ordinal function, on the tables as they are now
ThreadCompute(t) ==
    /\ threads[t].pc = "compute"
    /\ LET a == threads[t].args
           outcome == CASE threads[t].op = "bs_date_to_ordinal" ->
                                bs_date_to_ordinal(a[1], a[2], a[3])
                        [] threads[t].op = "ordinal_to_bs_date" -> ordinal_to_bs_date(a[1])
                        [] threads[t].op = "get_max_ordinal" -> get_max_ordinal
       IN  threads' = [threads EXCEPT ![t].pc = "returned", ![t].ret = outcome]
    /\ UNCHANGED <<globals, pc, call, ret, caches>>

\* the thread's caller takes the outcome
ThreadReturn(t) ==
    /\ threads[t].pc = "returned"
    /\ threads' = [threads EXCEPT ![t] = IdleThread]
    /\ UNCHANGED <<globals, pc, call, ret, caches>>

NextThreads ==
    \/ \E t \in Threads : ThreadCall(t)
    \/ \E t \in Threads : ThreadTest(t)
    \/ \E t \in Threads : ThreadLoad(t)
    \/ \E t \in Threads : ThreadAppend(t)
    \/ \E t \in Threads : ThreadMonths(t)
    \/ \E t \in Threads : ThreadMax(t)
    \/ \E t \in Threads : ThreadFlag(t)
    \/ \E t \in Threads : ThreadCompute(t)
    \/ \E t \in Threads : ThreadReturn(t)

SpecThreads == InitThreads /\ [][NextThreads]_vars

\* the tables of a sequential build: the days before each year, and the
\* outcome each call has on them
YearStarts == [i \in 1..NumYears |-> DaysBeforeYear(BS_MIN_YEAR + i - 1)]
SequentialOutcome(op, args) ==
    CASE op = "bs_date_to_ordinal" -> Ok(DaysBeforeYear(args[1]) + 1)
      [] op = "ordinal_to_bs_date" -> Ok(LastBsDay)
      [] op = "get_max_ordinal" -> Ok(TotalDays)

\* C20: the lazy initialisation is free of races: with two threads making
\* their first ordinal calls at once, in every interleaving the table of
\* year starts has, once it is marked initialised, exactly one entry per
\* year, in increasing order, every thread computes on that table, and the
\* outcome of every call is the one of a sequential run.
InitializationIsRaceFree ==
    /\ ORDINAL_INITIALIZED => CUMULATIVE_DAYS_BY_YEAR = YearStarts
    /\ \A t \in Threads :
          /\ threads[t].pc = "compute" => CUMULATIVE_DAYS_BY_YEAR = YearStarts
          /\ threads[t].pc = "returned"
                => threads[t].ret = SequentialOutcome(threads[t].op, threads[t].args)

\* what the code does keep under every interleaving: the month tables and
\* the maximum are those of a sequential build once a thread computes, and
\* the year starts appended are those of a sequential build, each year's
\* once per thread that ran the loop
MonthTablesSurviveRace ==
    \A t \in Threads :
        threads[t].pc = "compute" =>
            /\ MAX_ORDINAL = TotalDays
            /\ DOMAIN CUMULATIVE_DAYS_BY_MONTH = BS_MIN_YEAR..BS_MAX_YEAR
            /\ \A y \in BS_MIN_YEAR..BS_MAX_YEAR :
                    CUMULATIVE_DAYS_BY_MONTH[y] = month_cumulative(CalendarData[y], 1, <<0>>)
            /\ Len(CUMULATIVE_DAYS_BY_YEAR) \in NumYears..(2 * NumYears)

\* two threads have run the loop and the table of year starts holds every
\* entry twice
YearStartsDoubled ==
    /\ ORDINAL_INITIALIZED
    /\ Len(CUMULATIVE_DAYS_BY_YEAR) = 2 * NumYears

----------------------------------------------------------------------------
(* The memoisation of ad_to_bs, bs_to_ad (lru_cache(maxsize=1024)) and     *)
(* _compile_format (lru_cache(maxsize=128)).  A cache keeps the values     *)
(* returned, least recently used first; an exception is not kept.  The     *)
(* capacity is scaled to CacheSize.                                        *)

CacheSize == 2

\* Mutant: the key leaves out the last argument.
cache_key_short(args) == SubSeq(args, 1, Len(args) - 1)

\* the key lru_cache makes of the positional arguments
cache_key(args) == args

\* a call through the cache: the outcome returned and the cache left;
\* `outcome` is the outcome of the function body, which runs on a miss only
lru_cache(cache, args, outcome) ==
    LET key == cache_key(args)
        hits == {i \in 1..Len(cache) : cache[i][1] = key}
        without(i) == SubSeq(cache, 1, i - 1) \o SubSeq(cache, i + 1, Len(cache))
        room == IF Len(cache) >= CacheSize THEN Tail(cache) ELSE cache
        hit(i) == [hit |-> TRUE, result |-> Ok(cache[i][2]),
                   cache |-> Append(without(i), cache[i])]
        miss(r) == [hit |-> FALSE, result |-> r,
                    cache |-> IF r.kind = "ok" THEN Append(room, <<key, r.val>>) ELSE cache]
    IN  IF hits # {} THEN hit(CHOOSE i \in hits : TRUE) ELSE miss(outcome)

\* the calls made through the caches: more keys than a cache holds, with
\* keys whose call raises
CachedAdKeys ==
    {date_fromordinal(ref_ad_ordinal + k) : k \in {-1, 0, 400, TotalDays - 1, TotalDays}}
        \cup {<<REF_AD[1], 2, 30>>}
CachedBsKeys ==
    {<<BS_MIN_YEAR, 1, 1>>, <<BS_MIN_YEAR, 1, 2>>, <<BS_MIN_YEAR, 2, 1>>,
     <<BS_MAX_YEAR, 12, 1>>, <<BS_MAX_YEAR + 1, 1, 1>>, <<BS_MIN_YEAR, 13, 1>>}
CachedTemplates ==
    {ISO_TEMPLATE, DateFmt("K", "n", "D"), Code("H") \o <<":">> \o Code("M"),
     Code("H") \o <<":">> \o Code("m"), Code("H") \o <<":">> \o Code("H")}

InitCache ==
    /\ BS_CALENDAR = <<>>
    /\ CUMULATIVE_DAYS_BY_YEAR = <<>>
    /\ CUMULATIVE_DAYS_BY_MONTH = <<>>
    /\ MAX_ORDINAL = 0
    /\ ORDINAL_INITIALIZED = FALSE
    /\ pc = "idle"
    /\ call = NoCall
    /\ ret = NoRet
    /\ threads = <<>>
    /\ caches = [ad_to_bs |-> <<>>, bs_to_ad |-> <<>>, compile_format |-> <<>>]

\* the call op(args) through the cache of op has returned
ReturnsCached(op, args, through) ==
    /\ pc' = "returned"
    /\ call' = [op |-> op, args |-> args]
    /\ ret' = through.result
    /\ caches' = [caches EXCEPT ![op] = through.cache]
    /\ UNCHANGED threads

\* @lru_cache ad_to_bs: the body, and its effect on the globals, on a miss
CallCachedAdToBs ==
    /\ pc = "idle"
    /\ \E k \in CachedAdKeys:
          LET returned(through) ==
                  /\ ReturnsCached("ad_to_bs", k, through)
                  /\ IF ~through.hit /\ date_is_valid(k[1], k[2], k[3])
                        /\ date_toordinal(k[1], k[2], k[3]) >= ref_ad_ordinal
                     THEN InitializesTables
                     ELSE UNCHANGED globals
          IN  returned(lru_cache(caches.ad_to_bs, k, ad_to_bs(k[1], k[2], k[3])))

\* @lru_cache bs_to_ad
CallCachedBsToAd ==
    /\ pc = "idle"
    /\ \E k \in CachedBsKeys:
          LET returned(through) ==
                  /\ ReturnsCached("bs_to_ad", k, through)
                  /\ IF through.hit THEN UNCHANGED globals ELSE InitializesTables
          IN  returned(lru_cache(caches.bs_to_ad, k, bs_to_ad(k[1], k[2], k[3])))

\* @lru_cache _compile_format
CallCachedCompileFormat ==
    /\ pc = "idle"
    /\ \E fmt \in CachedTemplates:
          LET returned(through) ==
                  /\ ReturnsCached("compile_format", <<fmt>>, through)
                  /\ UNCHANGED globals
          IN  returned(lru_cache(caches.compile_format, <<fmt>>, compile_format(fmt)))

NextCache ==
    \/ CallCachedAdToBs
    \/ CallCachedBsToAd
    \/ CallCachedCompileFormat
    \/ Return

SpecCache == InitCache /\ [][NextCache]_vars

\* the outcome of the function body, the cache disabled
Uncached(op, args) ==
    CASE op = "ad_to_bs" -> ad_to_bs(args[1], args[2], args[3])
      [] op = "bs_to_ad" -> bs_to_ad(args[1], args[2], args[3])
      [] op = "compile_format" -> compile_format(args[1])

\* C21: the caches are transparent: in every sequence of calls of ad_to_bs,
\* bs_to_ad and _compile_format, with more keys than a cache holds, each
\* call returns the value, or raises the error, of the function itself.
CachesAreTransparent ==
    pc = "returned" => ret = Uncached(call.op, call.args)

\* no cache ever holds another value than the one of its key, or more
\* entries than its capacity
CacheEntriesAreCurrent ==
    \A op \in DOMAIN caches :
        /\ Len(caches[op]) <= CacheSize
        /\ \A i \in 1..Len(caches[op]) :
                Ok(caches[op][i][2]) = Uncached(op, caches[op][i][1])

\* a value has been returned with the cache full and holding neither of
\* two keys that were in it before: entries have been evicted
CachesAreTransparentWitness ==
    /\ pc = "returned" /\ call.op = "bs_to_ad" /\ ret.kind = "ok"
    /\ Len(caches.bs_to_ad) = CacheSize
    /\ caches.bs_to_ad[CacheSize][1] = <<BS_MIN_YEAR, 1, 1>>
    /\ caches.bs_to_ad[1][1] = <<BS_MAX_YEAR, 12, 1>>
    /\ Len(caches.ad_to_bs) = CacheSize
    /\ Len(caches.compile_format) = CacheSize

----------------------------------------------------------------------------
(* The Devanagari-digit codes against their ASCII counterparts.            *)

\* the letters of the codes that render a number in Devanagari digits, and
\* at the same place the letter of the ASCII code of the same field
DevanagariDigitCodes == <<"K", "k", "n", "D", "h", "i", "s">>
AsciiDigitCodes == <<"Y", "y", "m", "d", "H", "M", "S">>

\* the template with every Devanagari-digit code replaced by its ASCII code
AsciiCounterpart(fmt) == translate(fmt, DevanagariDigitCodes, AsciiDigitCodes)

\* the templates of the calls made of Devanagari-digit codes and separators
DevanagariTemplates ==
    {t \in Templates :
        /\ \E i \in 1..Len(t) : t[i] \in Range(DevanagariDigitCodes)
        /\ \A i \in 1..Len(t) : t[i] \in Range(DevanagariDigitCodes) \cup {"%", "-", ":", " "}
        /\ \A i \in 1..Len(t) : t[i] = "%" => i < Len(t) /\ t[i + 1] # "%"}

----------------------------------------------------------------------------
(* Comparison and hashing, applied by an idle client to two values it has  *)
(* constructed.                                                            *)

\* the dates a date is compared with: the probe dates, and dates that differ
\* from the first day in the day, in the month and in the year alone
CompareDates ==
    ProbeDates \cup
    {BSDate(t[1], t[2], t[3]).val :
        t \in {<<BS_MIN_YEAR, 1, 2>>, <<BS_MIN_YEAR, 2, 1>>, <<BS_MIN_YEAR + 1, 1, 1>>,
               <<BS_MIN_YEAR + 1, 2, 3>>, <<BS_MAX_YEAR, 1, 30>>}}

DateComparisons == {"BSDate.__eq__", "BSDate.__ne__", "BSDate.__lt__", "BSDate.__le__",
                    "BSDate.__gt__", "BSDate.__ge__"}

\* a <op> b
BSDate_compare(op, a, b) ==
    CASE op = "BSDate.__eq__" -> BSDate_eq(a, b)
      [] op = "BSDate.__ne__" -> BSDate_ne(a, b)
      [] op = "BSDate.__lt__" -> BSDate_lt(a, b)
      [] op = "BSDate.__le__" -> BSDate_le(a, b)
      [] op = "BSDate.__gt__" -> BSDate_gt(a, b)
      [] op = "BSDate.__ge__" -> BSDate_ge(a, b)

\* the constructors have loaded the calendar; an ordering goes on to the
\* ordinal tables
CallDateCompare ==
    /\ pc = "idle"
    /\ \E op \in DateComparisons, a \in BsDates, b \in CompareDates:
          /\ Returns(op, <<a, b>>, BSDate_compare(op, a, b))
          /\ IF op \in {"BSDate.__eq__", "BSDate.__ne__"} THEN LoadsCalendar
             ELSE InitializesTables

CallDateHash ==
    /\ pc = "idle"
    /\ \E a \in BsDates: Returns("BSDate.__hash__", <<a>>, Ok(BSDate_hash(a)))
    /\ LoadsCalendar

\* the datetimes compared with one another: the probe dates at the times of
\* day an offset of 5:45 carries over midnight or not, naive, in Nepal time
\* and in UTC
CompareTimes == {<<0, 0, 0, 0>>, <<5, 45, 0, 0>>, <<18, 15, 0, 0>>, <<23, 59, 59, 999999>>}
CompareTzInputs == {"None", "NPT", "UTC"}
CompareDateTimes ==
    {BSDateTime(b.year, b.month, b.day, t[1], t[2], t[3], t[4], tz).val :
        b \in ProbeDates \cup {BSDate(BS_MIN_YEAR, 1, 2).val},
        t \in CompareTimes, tz \in CompareTzInputs}

DateTimeComparisons ==
    {"BSDateTime.__eq__", "BSDateTime.__ne__", "BSDateTime.__lt__", "BSDateTime.__le__",
     "BSDateTime.__gt__", "BSDateTime.__ge__"}

\* a <op> b
BSDateTime_compare(op, a, b) ==
    CASE op = "BSDateTime.__eq__" -> BSDateTime_eq(a, b)
      [] op = "BSDateTime.__ne__" -> BSDateTime_ne(a, b)
      [] op = "BSDateTime.__lt__" -> BSDateTime_lt(a, b)
      [] op = "BSDateTime.__le__" -> BSDateTime_le(a, b)
      [] op = "BSDateTime.__gt__" -> BSDateTime_gt(a, b)
      [] op = "BSDateTime.__ge__" -> BSDateTime_ge(a, b)

\* an ordering goes through to_ad() and bs_to_ad to the ordinal tables
CallDateTimeCompare ==
    /\ pc = "idle"
    /\ \E op \in DateTimeComparisons, a \in CompareDateTimes, b \in CompareDateTimes:
          /\ Returns(op, <<a, b>>, BSDateTime_compare(op, a, b))
          /\ IF op \in {"BSDateTime.__eq__", "BSDateTime.__ne__"} THEN LoadsCalendar
             ELSE InitializesTables

NextCompare ==
    \/ CallDateCompare
    \/ CallDateHash
    \/ CallDateTimeCompare
    \/ Return

SpecCompare == Init /\ [][NextCompare]_vars

\* (year, month, day) of a before that of b in the lexicographic order
LexLess(a, b) ==
    \/ a.year < b.year
    \/ a.year = b.year /\ a.month < b.month
    \/ a.year = b.year /\ a.month = b.month /\ a.day < b.day

\* the number of the formulas of a set that are true
Trues(results) == Cardinality({i \in DOMAIN results : results[i] = Ok(TRUE)})

\* C23: on BSDate values a < b is the lexicographic order of (year, month,
\* day); exactly one of a < b, a == b, a > b is true; a <= b is a < b or
\* a == b (and a >= b likewise, a != b the negation of a == b); and equal
\* dates have equal hashes.
DateOrderIsChronological ==
    /\ (pc = "returned" /\ call.op \in DateComparisons) =>
          LET a == call.args[1]
              b == call.args[2]
              lt == BSDate_lt(a, b)
              eq == BSDate_eq(a, b)
              gt == BSDate_gt(a, b)
          IN  /\ ret \in {Ok(TRUE), Ok(FALSE)}
              /\ Trues(<<lt, eq, gt>>) = 1
              /\ lt = Ok(LexLess(a, b))
              /\ gt = Ok(LexLess(b, a))
              /\ (call.op = "BSDate.__le__") => ret = Ok(lt.val \/ eq.val)
              /\ (call.op = "BSDate.__ge__") => ret = Ok(gt.val \/ eq.val)
              /\ (call.op = "BSDate.__ne__") => ret = Ok(~eq.val)
              /\ (call.op = "BSDate.__lt__") => ret = lt
              /\ (call.op = "BSDate.__eq__") => ret = eq
              /\ (call.op = "BSDate.__gt__") => ret = gt
    /\ (pc = "returned" /\ call.op = "BSDate.__hash__") =>
          \A b \in CompareDates :
              BSDate_eq(call.args[1], b) = Ok(TRUE) => ret = Ok(BSDate_hash(b))

\* the last day of a year has compared less than the first day of the next,
\* whose month and day are smaller
DateOrderIsChronologicalWitness ==
    /\ pc = "returned" /\ call.op = "BSDate.__lt__"
    /\ call.args[1].year = BS_MIN_YEAR /\ call.args[1].month = 12
    /\ call.args[2].year = BS_MIN_YEAR + 1 /\ call.args[2].month = 1 /\ call.args[2].day = 1
    /\ ret = Ok(TRUE)

----------------------------------------------------------------------------
(* BSDateTime arithmetic: the carry of the time of day into the date.      *)

\* the time of day sign * delta after that of dt: the seconds since
\* midnight and the microsecond
TimeShift(dt, delta, sign) ==
    LET us == dt.microsecond + sign * delta.microseconds
        s == dt.hour * 3600 + dt.minute * 60 + dt.second + sign * delta.seconds
                + (us \div 1000000)
    IN  [seconds |-> s % 86400, microsecond |-> us % 1000000]

\* dt.__add__(delta) or dt.__sub__(delta) has returned the value whose date
\* is the day of the table DayShift days from that of dt, whose time of day
\* is the rest, and whose tzinfo is that of dt
Carried(dt, delta, sign, value) ==
    /\ value.type = "BSDateTime"
    /\ ValidBs(<<value.year, value.month, value.day>>)
    /\ DayIndex(value) = DayIndex(dt) + DayShift(dt, delta, sign)
    /\ value.hour * 3600 + value.minute * 60 + value.second = TimeShift(dt, delta, sign).seconds
    /\ value.microsecond = TimeShift(dt, delta, sign).microsecond
    /\ value.tzinfo = dt.tzinfo

\* what holds of the code: the carry of + and -, - as + of the negation,
\* and the round trip of two values of the same tzinfo
DateTimeAddCarries ==
    (pc = "returned" /\ call.op \in {"BSDateTime.__add__", "BSDateTime.__sub__"}
        /\ call.args[2].type = "timedelta") =>
        LET dt == call.args[1]
            delta == call.args[2]
            sign == IF call.op = "BSDateTime.__add__" THEN 1 ELSE -1
        IN  /\ ret.kind = "ok" => Carried(dt, delta, sign, ret.val)
            /\ ret.kind # "ok" =>
                  ~(DayIndex(dt) + DayShift(dt, delta, sign) \in 1..TotalDays)
            /\ (sign = -1) => ret = BSDateTime_add(dt, timedelta_neg(delta))

\* dt2 + (dt1 - dt2) == dt1, for the call dt1 - dt2 that has returned
RoundTrips(dt1, dt2) ==
    LET equal(sum) == sum.kind = "ok" /\ BSDateTime_eq(sum.val, dt1) = Ok(TRUE)
    IN  equal(BSDateTime_add(dt2, ret.val))

DateTimeSubRoundTripsInOneZone ==
    (pc = "returned" /\ call.op = "BSDateTime.__sub__" /\ call.args[2].type = "BSDateTime"
        /\ call.args[1].tzinfo = call.args[2].tzinfo) =>
        /\ ret.kind = "ok"
        /\ RoundTrips(call.args[1], call.args[2])

\* C24: dt + t is the value whose date is advanced by the whole days the
\* time of day overflows by, rolling over months and years by the table,
\* and whose time is the rest; dt - t == dt + (-t); and dt1 - dt2 is the
\* elapsed time, so that dt2 + (dt1 - dt2) == dt1 whenever dt1 - dt2 is
\* defined.
DateTimeArithmeticCarries ==
    /\ DateTimeAddCarries
    /\ (pc = "returned" /\ call.op = "BSDateTime.__sub__"
          /\ call.args[2].type = "BSDateTime" /\ ret.kind = "ok") =>
          RoundTrips(call.args[1], call.args[2])

\* a microsecond has carried the last instant of a year into the next year
DateTimeAddCarriesWitness ==
    /\ pc = "returned" /\ call.op = "BSDateTime.__add__"
    /\ call.args[1].year = BS_MIN_YEAR /\ call.args[1].hour = 23
    /\ call.args[2] = timedelta(0, 0, 1)
    /\ ret.kind = "ok"
    /\ ret.val.year = BS_MIN_YEAR + 1 /\ ret.val.month = 1 /\ ret.val.day = 1
    /\ ret.val.hour = 0 /\ ret.val.microsecond = 0

\* a value in Nepal time minus one in UTC has returned the elapsed time
DateTimeSubAcrossZones ==
    /\ pc = "returned" /\ call.op = "BSDateTime.__sub__"
    /\ call.args[2].type = "BSDateTime"
    /\ call.args[1].tzinfo = "NPT" /\ call.args[2].tzinfo = "UTC"
    /\ ret.kind = "ok"

----------------------------------------------------------------------------
(* The tables of the converter over a sequence of calls of one client.     *)

\* the functions that count in ordinals or convert between the calendars
OrdinalCalls == {"bs_date_to_ordinal", "ordinal_to_bs_date", "get_max_ordinal",
                 "ad_to_bs", "bs_to_ad"}

\* the tables built from the calendar data
BuiltTables == build_lookup_tables(CalendarData, BS_MIN_YEAR, 0, <<>>, <<>>)

\* C25: with one thread the calendar table and the ordinal tables are built
\* once: when an ordinal or conversion call has returned a value the tables
\* are those of the calendar data, and from then on no call, successful or
\* failing, changes the calendar table, the year-start table, the
\* month-start tables or the maximum ordinal.
TablesBuiltOnce ==
    /\ []((pc = "returned" /\ call.op \in OrdinalCalls /\ ret.kind = "ok") =>
            /\ ORDINAL_INITIALIZED
            /\ BS_CALENDAR = CalendarData
            /\ CUMULATIVE_DAYS_BY_YEAR = BuiltTables.byYear
            /\ CUMULATIVE_DAYS_BY_MONTH = BuiltTables.byMonth
            /\ MAX_ORDINAL = BuiltTables.max)
    /\ [][ORDINAL_INITIALIZED => (ORDINAL_INITIALIZED' /\ UNCHANGED globals)]_vars
    /\ [][BS_CALENDAR # <<>> => BS_CALENDAR' = BS_CALENDAR]_vars

\* with the tables built, a call of the ordinal engine has failed and one of
\* ad_to_bs has been refused before it reached the engine
TablesBuiltOnceWitness ==
    /\ pc = "returned"
    /\ ORDINAL_INITIALIZED
    /\ MAX_ORDINAL = TotalDays
    /\ \/ call.op = "ad_to_bs" /\ ret.kind = "ValueError"
          /\ ~date_is_valid(call.args[1], call.args[2], call.args[3])
       \/ call.op = "bs_date_to_ordinal" /\ ret.kind = "ValueError"

----------------------------------------------------------------------------
(* Templates with a doubled percent sign before a code letter.             *)

\* the templates of the calls that are '%%' and the letter of a code
EscapedCodeTemplates ==
    {t \in Templates :
        /\ Len(t) = 3 /\ t[1] = "%" /\ t[2] = "%"
        /\ \E i \in 1..Len(ALL_FORMAT_CODES) : ALL_FORMAT_CODES[i] = t[3]}

\* C26: a template is rendered, and compiled to a pattern, in one pass: the
\* text put in for one code is not read as a code again.  '%%' before the
\* letter of a code ('%%Y', '%%D') renders '%' and the letter, and the
\* pattern of such a template matches that text.
TemplatesAreSinglePass ==
    /\ (pc = "returned" /\ call.op = "strftime" /\ call.args[2] \in EscapedCodeTemplates) =>
          ret = Ok(PyStr(Tail(call.args[2])))
    /\ (pc = "returned" /\ call.op = "parse_bs_datetime"
          /\ call.args[2][1] = "%" /\ call.args[2][2] = "%"
          /\ call.args[1] = Tail(SubSeq(call.args[2], 1, 4)) \o IsoText([year |-> FirstBsDay[1], month |-> FirstBsDay[2], day |-> FirstBsDay[3]])) =>
          /\ ret.kind = "ok"
          /\ <<ret.val.year, ret.val.month, ret.val.day>> = FirstBsDay

\* what the code does: the codes are replaced one after the other, in the
\* order of the dict, in the text the earlier replacements have left; '%Y'
\* of '%%Y' is replaced by the year, and '%%' of '%%D' by '%', which with
\* the D is replaced by the day; '%%j' of a BSDateTime, whose '%j' fails,
\* is left as '%j'
EscapedCodesAreReplaced ==
    (pc = "returned" /\ call.op = "strftime" /\ call.args[2] \in EscapedCodeTemplates) =>
        LET letter == call.args[2][3]
            rendered(value) ==
                ret = Ok(PyStr(IF value.kind # "ok" THEN Tail(call.args[2])
                               ELSE IF letter \in {"D", "n", "N", "K", "k", "G", "g",
                                                   "h", "i", "s", "P"}
                               THEN value.val
                               ELSE <<"%">> \o value.val))
        IN  rendered(code_value(letter, call.args[1], call.args[3]))

\* the pattern of '%%D %Y-%m-%d' has '%' and the group of %D: it does not
\* match the text '%D 1901-01-01'
EscapedCodePatternRefusesLiteral ==
    (pc = "returned" /\ call.op = "parse_bs_datetime"
        /\ SubSeq(call.args[2], 1, 3) = <<"%", "%", "D">>) =>
        ret = Raise("ValueError")

\* '%%Y' has rendered a percent sign and the year
EscapedCodesAreReplacedWitness ==
    /\ pc = "returned" /\ call.op = "strftime"
    /\ call.args[2] = <<"%", "%", "Y">>
    /\ ret = Ok(PyStr(<<"%">> \o format_d(call.args[1].year, 4)))

----------------------------------------------------------------------------
(* The codes of the date fields on a BSDateTime and on its date.           *)

DateCodes == {"Y", "y", "m", "d", "B", "b", "A", "a", "w", "j",
              "K", "k", "n", "D", "N", "G", "g"}

\* dt.strftime(fmt) has returned what dt.to_date().strftime(fmt) returns
SameAsOnDate ==
    LET same(date) == date.kind = "ok" /\ ret = strftime(date.val, call.args[2], call.args[3])
    IN  same(BSDateTime_to_date(call.args[1]))

\* C27: for a BSDateTime dt and the code of a date field (%Y %y %m %d %B %b
\* %A %a %w %j %K %k %n %D %N %G %g), dt.strftime(code) is
\* dt.to_date().strftime(code).
DateCodesIgnoreValueKind ==
    (pc = "returned" /\ call.op = "strftime" /\ call.args[1].type = "BSDateTime"
        /\ Len(call.args[2]) = 2 /\ call.args[2][1] = "%" /\ call.args[2][2] \in DateCodes) =>
        SameAsOnDate

\* what the code does: the codes other than %j are rendered alike, and %j,
\* whose formatter calls toordinal(), is left in the text of a BSDateTime
DateCodesButDayOfYearIgnoreValueKind ==
    (pc = "returned" /\ call.op = "strftime" /\ call.args[1].type = "BSDateTime"
        /\ Len(call.args[2]) = 2 /\ call.args[2][1] = "%" /\ call.args[2][2] \in DateCodes) =>
        IF call.args[2][2] = "j" THEN ret = Ok(PyStr(call.args[2])) ELSE SameAsOnDate

\* the weekday of a datetime has been rendered in Nepali
DateCodesButDayOfYearIgnoreValueKindWitness ==
    /\ pc = "returned" /\ call.op = "strftime" /\ call.args[1].type = "BSDateTime"
    /\ call.args[2] = <<"%", "G">>
    /\ ret.kind = "ok" /\ ret.val.v \in Range(DAYS_NEPALI)

----------------------------------------------------------------------------
(* An hour with an AM or PM marker.                                        *)

\* C28: when parse on the AM/PM shape or parse_bs_datetime with %p returns
\* a value, its hour is in 0..11 if the marker is AM and in 12..23 if it is
\* PM; an hour text outside 1..12 with a marker raises ValueError.
MarkedHourLandsInItsHalf ==
    \A c \in MarkedHourCases :
        (Parsed(c) \/ Templated(c)) =>
            /\ ret.kind = "ok" =>
                  ret.val.hour \in (IF c.word = <<"A", "M">> THEN 0..11 ELSE 12..23)
            /\ c.hour \notin 1..12 => ret = Raise("ValueError")

\* what the code does: the hour of the text goes through the conversion
\* whatever it is, and the value is refused only when the converted hour is
\* not one of 0..23
MarkedHourIsConverted ==
    \A c \in MarkedHourCases :
        (Parsed(c) \/ Templated(c)) =>
            ret = Spelled([type |-> "BSDateTime",
                           fields |-> <<2080, 1, 15, to_24_hour(c.hour, c.word), 30, 0, 0>>])

\* 13:30 AM has been read as 13:30 by parse
MarkedHourIsConvertedWitness ==
    \E c \in MarkedHourCases :
        /\ Parsed(c) /\ c.hour = 13 /\ c.word = <<"A", "M">>
        /\ ret.kind = "ok" /\ ret.val.hour = 13

----------------------------------------------------------------------------
(* BSDate minus a timedelta and plus its negation.                         *)

\* C29: for a BSDate d and a timedelta t, with or without a part of a day
\* (12 hours, say), d - t == d + (-t) whenever either is defined.
DateSubIsAddOfNegation ==
    (pc = "returned" /\ call.op = "BSDate.__sub__" /\ call.args[2].type = "timedelta") =>
        ret = BSDate_add(call.args[1], timedelta_neg(call.args[2]))

\* what the code does: d - t is d + (-t) for a t of whole days; for a t with
\* a part of a day d - t drops the part, d - t == d - timedelta(t.days),
\* while -t has the days -t.days - 1, so that d + (-t) is the day before
DateSubDropsPartOfDay ==
    (pc = "returned" /\ call.op = "BSDate.__sub__" /\ call.args[2].type = "timedelta") =>
        LET d == call.args[1]
            t == call.args[2]
            whole == t.seconds = 0 /\ t.microseconds = 0
        IN  /\ whole => ret = BSDate_add(d, timedelta_neg(t))
            /\ ~whole =>
                  /\ ret = BSDate_sub(d, timedelta(t.days, 0, 0))
                  /\ timedelta_neg(t).days = -t.days - 1
                  /\ ret.kind = "ok" => BSDate_add(d, timedelta_neg(t)) = BSDate_sub(ret.val, PyInt(1))

\* a second has been subtracted from the last day of the first year, and
\* the date returned, where d + (-t) is the day before
DateSubDropsPartOfDayWitness ==
    /\ pc = "returned" /\ call.op = "BSDate.__sub__"
    /\ call.args[2] = timedelta(0, 1, 0)
    /\ call.args[1].year = BS_MIN_YEAR /\ call.args[1].month = 12
    /\ ret = Ok(call.args[1])
    /\ BSDate_add(call.args[1], timedelta_neg(call.args[2])).kind = "ok"

----------------------------------------------------------------------------
(* Equality and order of BSDateTime.                                       *)

\* a and b can be ordered: both naive or both aware
Orderable(a, b) == (a.tzinfo = "None") = (b.tzinfo = "None")

\* C30: of two BSDateTime a and b that can be ordered (both naive, or both
\* aware, with the same or with different offsets) exactly one of a < b,
\* a == b, a > b is true; so a <= b and b <= a give a == b.
DateTimeEqualityAgreesWithOrder ==
    (pc = "returned" /\ call.op \in DateTimeComparisons
        /\ Orderable(call.args[1], call.args[2])) =>
        LET a == call.args[1]
            b == call.args[2]
        IN  /\ ret \in {Ok(TRUE), Ok(FALSE)}
            /\ Trues(<<BSDateTime_lt(a, b), BSDateTime_eq(a, b), BSDateTime_gt(a, b)>>) = 1
            /\ (BSDateTime_le(a, b) = Ok(TRUE) /\ BSDateTime_le(b, a) = Ok(TRUE)) =>
                  BSDateTime_eq(a, b) = Ok(TRUE)

\* what the code does: the order is that of the instants, and == compares
\* the fields and the tzinfo; they agree on two values of the same tzinfo,
\* and two values of different offsets at the same instant are neither
\* <, nor ==, nor >
DateTimeEqualityComparesFields ==
    (pc = "returned" /\ call.op \in DateTimeComparisons
        /\ Orderable(call.args[1], call.args[2])) =>
        LET a == call.args[1]
            b == call.args[2]
            ordered == Trues(<<BSDateTime_lt(a, b), BSDateTime_gt(a, b)>>)
        IN  /\ ret \in {Ok(TRUE), Ok(FALSE)}
            /\ ordered <= 1
            /\ BSDateTime_eq(a, b) = Ok(a = b)
            /\ a.tzinfo = b.tzinfo => (ordered = 0) = (a = b)
            /\ BSDateTime_eq(a, b) = Ok(TRUE) => ordered = 0

\* 05:45 in Nepal time and 00:00 in UTC of the same day are each <= the
\* other, and not ==
DateTimeEqualityComparesFieldsWitness ==
    /\ pc = "returned" /\ call.op = "BSDateTime.__le__"
    /\ call.args[1].tzinfo = "NPT" /\ call.args[1].hour = 5 /\ call.args[1].minute = 45
    /\ call.args[2].tzinfo = "UTC" /\ call.args[2].hour = 0
    /\ call.args[1].day = call.args[2].day /\ call.args[1].year = call.args[2].year
    /\ ret = Ok(TRUE)
    /\ BSDateTime_le(call.args[2], call.args[1]) = Ok(TRUE)
    /\ BSDateTime_eq(call.args[1], call.args[2]) = Ok(FALSE)

====
